---------------------------- MODULE Spec2Model ----------------------------
(***************************************************************************)
(* The pattern compiler of the knitting platform: parsePattern and the     *)
(* stitch technique table of src/unnamed/part_001 (part_000 holds the same *)
(* code).                                                                  *)
(*                                                                         *)
(* A token is a sequence of one-character strings, so that toLowerCase,    *)
(* startsWith, endsWith, substring and parseInt are computed as the code   *)
(* computes them.  The pattern text is a flat sequence of items: tokens    *)
(* and the line break NL.  One step of the model is one iteration of the   *)
(* token loop, one end of line, or the return.                             *)
(***************************************************************************)
EXTENDS Integers, Sequences, FiniteSets, TLC

VARIABLES
    pattern,      \* the text handed to parsePattern when it is fixed up front
    text,         \* the part of the pattern text not yet read
    closed,       \* TRUE when no further text follows `text`
    i,            \* number of tokens of the current line already consumed
    allNodes, allEdges, rightNeedle, leftNeedle, count, edgeFlag,
    result,       \* NoResult or the object parsePattern returned
    prev,         \* history: the compiler state before the last step
    last,         \* history: what the last step did
    passStart,    \* history: per node, whether a pass boundary preceded it
    boundary,     \* history: a pass boundary lies after the last node created
    heap,         \* the objects of the page: heap[a] is the object at address a
    nodes, edges, \* the globals holding the compiled graph, as addresses
    positionedNodes,  \* the global holding the seeded copies, as addresses
    pyodide,      \* window.pyodide: what of the embedding provider is loaded
    pc,           \* where the click handler stands
    sim,          \* the engine run: its copies, counter, solver and promise, and
                  \* (history) the edges of the graph it was started on
    runs,         \* layout runs started over the compiled graph
    seed,         \* history: which seeder made positionedNodes, and the stage
                  \* at which the embedding provider failed
    tickLog,      \* history: what the last tick did to each node
    search,       \* the scale calibration of the end handler, step by step
    canvas,       \* history: what the run's call of setupDrawingCanvas was given
                  \* and which edges its drawing reads
    earlier,      \* an engine run still going when a later click took the page
    segments,     \* two segments and what doSegmentsIntersect says of them
    budget,       \* the number of ticks after which the solver's alpha is below
                  \* alphaMin
    typed         \* patternInput.value when processBtn is clicked

compiler == <<allNodes, allEdges, rightNeedle, leftNeedle, count, edgeFlag>>
history == <<prev, last, passStart, boundary>>
aside == <<search, canvas, earlier, segments, budget, typed>>
layout == <<heap, nodes, edges, positionedNodes, pyodide, pc, sim, runs, seed, tickLog, aside>>
vars == <<pattern, text, closed, i, compiler, result, history, layout>>

----------------------------------------------------------------------------
(* Bounds of the explored inputs *)

MaxNodes  == 3      \* free text: no further token is supplied once count reaches it
MaxTokens == 3      \* free text: tokens per line
MaxN      == 4      \* knit texts: stitches cast on
MaxR      == 4      \* knit texts: rows
Budget    == 2      \* ticks until the solver's alpha falls below alphaMin
LongBudget == 12    \* the same for the runs that reach the second energy check

----------------------------------------------------------------------------
(* Strings *)

Lower == <<"a","b","c","d","e","f","g","h","i","j","k","l","m",
           "n","o","p","q","r","s","t","u","v","w","x","y","z">>
Upper == <<"A","B","C","D","E","F","G","H","I","J","K","L","M",
           "N","O","P","Q","R","S","T","U","V","W","X","Y","Z">>
Digits == <<"0","1","2","3","4","5","6","7","8","9">>

IsDigit(ch) == \E d \in 1..10 : Digits[d] = ch
DigitVal(ch) == (CHOOSE d \in 1..10 : Digits[d] = ch) - 1

LowerChar(ch) ==
    IF \E n \in 1..26 : Upper[n] = ch
    THEN Lower[CHOOSE n \in 1..26 : Upper[n] = ch]
    ELSE ch

\* String.prototype.toLowerCase
ToLowerCase(s) == [n \in 1..Len(s) |-> LowerChar(s[n])]

\* String.prototype.startsWith / endsWith / substring(from)
StartsWith(s, p) == Len(s) >= Len(p) /\ SubSeq(s, 1, Len(p)) = p
EndsWith(s, p) == Len(s) >= Len(p) /\ SubSeq(s, Len(s) - Len(p) + 1, Len(s)) = p
Substring(s, from) == SubSeq(s, from + 1, Len(s))

\* The number of leading decimal digits of s.
RECURSIVE DigitPrefix(_)
DigitPrefix(s) ==
    IF s # <<>> /\ IsDigit(Head(s)) THEN 1 + DigitPrefix(Tail(s)) ELSE 0

RECURSIVE DigitsValue(_, _)
DigitsValue(s, acc) ==
    IF s = <<>> THEN acc ELSE DigitsValue(Tail(s), 10 * acc + DigitVal(Head(s)))

\* parseInt(s) for a token s without white space and without a 0x prefix:
\* an optional sign, then the longest run of decimal digits; NaN without one.
ParseInt(s) ==
    LET neg  == s # <<>> /\ Head(s) = "-"
        body == IF s # <<>> /\ Head(s) \in {"-", "+"} THEN Tail(s) ELSE s
        n    == DigitPrefix(body)
        v    == DigitsValue(SubSeq(body, 1, n), 0)
    IN  IF n = 0 THEN [nan |-> TRUE, val |-> 0]
        ELSE [nan |-> FALSE, val |-> IF neg THEN 0 - v ELSE v]

\* The decimal token of a number 0..9.
NumTok(n) == <<Digits[n + 1]>>

----------------------------------------------------------------------------
(* The stitch technique table *)

Technique(c, k, a, d) == [character |-> c, kill |-> k, add |-> a, cursor_dir |-> d]

loadStitchTechniques ==
    (<<"k">> :> Technique("k", 1, 1, FALSE))
 @@ (<<"c","o">> :> Technique("k", 0, 1, FALSE))
 @@ (<<"y","o">> :> Technique("k", 0, 1, FALSE))
 @@ (<<"b","o">> :> Technique("k", 1, 0, FALSE))
 @@ (<<"p">> :> Technique("p", 1, 1, FALSE))
 @@ (<<"k","f","b">> :> Technique("k", 1, 2, FALSE))
 @@ (<<"k","f","b","3">> :> Technique("k", 1, 3, FALSE))
 @@ (<<"k","f","b","4">> :> Technique("k", 1, 4, FALSE))
 @@ (<<"k","f","b","5">> :> Technique("k", 1, 5, FALSE))
 @@ (<<"k","f","b","3","-","3">> :> Technique("k", 3, 3, FALSE))
 @@ (<<"s","s","k">> :> Technique("k", 2, 1, FALSE))
 @@ (<<"k","2","t","o","g">> :> Technique("k", 2, 1, FALSE))
 @@ (<<"p","2","t","o","g">> :> Technique("p", 2, 1, FALSE))
 @@ (<<"k","3","t","o","g">> :> Technique("k", 3, 1, FALSE))
 @@ (<<"t","u","r","n">> :> Technique("k", 0, 0, TRUE))

stitchTechniques == loadStitchTechniques

\* Property names every object inherits from Object.prototype that can equal
\* a lower-cased token not starting with "co": only __proto__.
InheritedKeys == {<<"_","_","p","r","o","t","o","_","_">>}

\* `stitch in stitchTechniques`: own and inherited property names.
InTechniques(stitch) ==
    stitch \in DOMAIN stitchTechniques \/ stitch \in InheritedKeys

\* stitchTechniques[stitch].  For an inherited key the value is the prototype
\* object: cursor_dir, add and kill are undefined there, so there is no swap
\* and both loops (j < undefined) run zero times.
TechOf(stitch) ==
    IF stitch \in DOMAIN stitchTechniques THEN stitchTechniques[stitch]
    ELSE Technique("undefined", 0, 0, FALSE)

----------------------------------------------------------------------------
(* Tokens and texts *)

co    == <<"c","o">>
turn  == <<"t","u","r","n">>
knit  == <<"k">>
NL    == <<"\n">>
NoTok == <<>>

\* The tokens free text is made of.
Tokens ==
    { co, <<"c","o","2">>, <<"c","o","x">>, <<"2">>, <<"-","1">>,
      knit, <<"K">>, <<"b","o">>, <<"y","o">>, <<"k","f","b">>,
      <<"k","2","t","o","g">>, turn, <<"c","4","c">>, <<"c","o","c">>, <<"z","z">>,
      <<"_","_","p","r","o","t","o","_","_">> }

RECURSIVE Repeat(_, _)
Repeat(x, n) == IF n <= 0 THEN <<>> ELSE <<x>> \o Repeat(x, n - 1)

RECURSIVE KnitRows(_, _)
KnitRows(N, r) == IF r <= 0 THEN <<>> ELSE <<NL>> \o Repeat(knit, N) \o KnitRows(N, r - 1)

\* `co N`, then R-1 lines of N `k` tokens.
KnitText(N, R) == <<co, NumTok(N)>> \o KnitRows(N, R - 1)

TurnOneLine    == <<co, NumTok(6), turn, turn>>
TurnThreeLines == <<co, NumTok(6), NL, turn, NL, turn>>

FixedTexts ==
    { KnitText(N, R) : N \in 1..MaxN, R \in 1..MaxR } \cup {TurnOneLine, TurnThreeLines}

----------------------------------------------------------------------------
(* The compiler state as a record, and the steps of parsePattern on it *)

weightH == 10     \* horizontal edge weight, in tenths
weightV == 15     \* vertical edge weight, in tenths

NoResult == [nodes |-> <<>>, edges |-> <<>>, success |-> FALSE, error |-> <<"pending">>]

State == [allNodes |-> allNodes, allEdges |-> allEdges, rightNeedle |-> rightNeedle,
          leftNeedle |-> leftNeedle, count |-> count, edgeFlag |-> edgeFlag]

InitState == [allNodes |-> <<>>, allEdges |-> <<>>, rightNeedle |-> <<>>,
              leftNeedle |-> <<>>, count |-> 0, edgeFlag |-> TRUE]

\* Variant of PushNode that numbers nodes from 1.
PushNodeFromOne(c, type, tech) ==
    [c EXCEPT
        !.rightNeedle = Append(@, c.count),
        !.allNodes = Append(@, [id |-> c.count + 1, type |-> type,
                                character |-> tech.character, technique |-> tech]),
        !.allEdges = IF ~c.edgeFlag /\ c.count > 0
                     THEN Append(@, [source |-> c.count - 1, target |-> c.count,
                                     weight |-> weightH, type |-> "horizontal"])
                     ELSE @,
        !.edgeFlag = FALSE,
        !.count = @ + 1]

\* One iteration of a node-creating loop body: push the id, create the node,
\* link it to its predecessor unless the flag suppresses it, count++.
PushNode(c, type, tech) ==
    [c EXCEPT
        !.rightNeedle = Append(@, c.count),
        !.allNodes = Append(@, [id |-> c.count, type |-> type,
                                character |-> tech.character, technique |-> tech]),
        !.allEdges = IF ~c.edgeFlag /\ c.count > 0
                     THEN Append(@, [source |-> c.count - 1, target |-> c.count,
                                     weight |-> weightH, type |-> "horizontal"])
                     ELSE @,
        !.edgeFlag = FALSE,
        !.count = @ + 1]

RECURSIVE PushNodes(_, _, _, _)
PushNodes(c, type, tech, n) ==
    IF n <= 0 THEN c ELSE PushNodes(PushNode(c, type, tech), type, tech, n - 1)

\* Variant of CastOnCount that does not skip the token the count was read from.
CastOnCountNoSkip(stitch, next) ==
    IF stitch = <<"c","o">>
    THEN IF next # <<>> /\ ~ParseInt(next).nan
         THEN [n |-> ParseInt(next).val, consumed |-> 1]
         ELSE [n |-> 1, consumed |-> 1]
    ELSE IF ~ParseInt(Substring(stitch, 2)).nan
         THEN [n |-> ParseInt(Substring(stitch, 2)).val, consumed |-> 1]
         ELSE [n |-> 1, consumed |-> 1]

\* The count of a cast-on token and the number of tokens it consumes; next is
\* the following token of the line, NoTok when there is none.
CastOnCount(stitch, next) ==
    IF stitch = co
    THEN IF next # NoTok /\ ~ParseInt(next).nan
         THEN [n |-> ParseInt(next).val, consumed |-> 2]
         ELSE [n |-> 1, consumed |-> 1]
    ELSE IF ~ParseInt(Substring(stitch, 2)).nan
         THEN [n |-> ParseInt(Substring(stitch, 2)).val, consumed |-> 1]
         ELSE [n |-> 1, consumed |-> 1]

\* Create cast-on stitches.
CastOn(c, n) == PushNodes(c, co, stitchTechniques[co], n)

\* Variant of Swap that leaves the flag as it is.
SwapKeepFlag(c) ==
    [c EXCEPT !.rightNeedle = c.leftNeedle, !.leftNeedle = c.rightNeedle]

\* Variant of Swap without the temporary copy: the right needle is lost.
SwapLost(c) ==
    [c EXCEPT !.rightNeedle = c.leftNeedle, !.leftNeedle = c.leftNeedle,
              !.edgeFlag = TRUE]

\* cursor_dir: the needles change roles and the flag is re-armed.
Swap(c) ==
    [c EXCEPT !.rightNeedle = c.leftNeedle, !.leftNeedle = c.rightNeedle,
              !.edgeFlag = TRUE]

\* The add loop of a technique.
AddPhase(c, stitch, tech) == PushNodes(c, stitch, tech, tech.add)

\* Variant of VerticalEdges that links the popped stitch to the first added
\* stitch only.
VerticalEdgesFirstOnly(usedStitch, addedStitches) ==
    [n \in 1..(IF Len(addedStitches) > 0 THEN 1 ELSE 0) |->
        [source |-> usedStitch, target |-> addedStitches[n],
         weight |-> weightV, type |-> "vertical"]]

\* The vertical edges of one popped stitch, one per added stitch, in order.
VerticalEdges(usedStitch, addedStitches) ==
    [n \in 1..Len(addedStitches) |->
        [source |-> usedStitch, target |-> addedStitches[n],
         weight |-> weightV, type |-> "vertical"]]

\* Variant of KillPhase that stops quietly when the left needle runs out.
RECURSIVE KillPhaseClamped(_, _, _)
KillPhaseClamped(c, addedStitches, j) ==
    IF j <= 0 \/ Len(c.leftNeedle) = 0 THEN [c |-> c, threw |-> FALSE]
    ELSE KillPhaseClamped(
            [c EXCEPT
                !.leftNeedle = SubSeq(@, 1, Len(@) - 1),
                !.allEdges = @ \o [n \in 1..Len(addedStitches) |->
                                    [source |-> c.leftNeedle[Len(c.leftNeedle)],
                                     target |-> addedStitches[n],
                                     weight |-> weightV, type |-> "vertical"]]],
            addedStitches, j - 1)

\* Variant of KillPhase that takes the stitches from the front of the left
\* needle.
RECURSIVE KillPhaseShift(_, _, _)
KillPhaseShift(c, addedStitches, j) ==
    IF j <= 0 THEN [c |-> c, threw |-> FALSE]
    ELSE IF Len(c.leftNeedle) > 0
         THEN KillPhaseShift(
                [c EXCEPT
                    !.leftNeedle = Tail(@),
                    !.allEdges = @ \o VerticalEdges(c.leftNeedle[1], addedStitches)],
                addedStitches, j - 1)
         ELSE [c |-> c, threw |-> TRUE]

\* Variant of KillPhase that reads the last stitch of the left needle and
\* leaves it there.
RECURSIVE KillPhasePeek(_, _, _)
KillPhasePeek(c, addedStitches, j) ==
    IF j <= 0 THEN [c |-> c, threw |-> FALSE]
    ELSE IF Len(c.leftNeedle) > 0
         THEN KillPhasePeek(
                [c EXCEPT
                    !.allEdges = @ \o VerticalEdges(c.leftNeedle[Len(c.leftNeedle)],
                                                    addedStitches)],
                addedStitches, j - 1)
         ELSE [c |-> c, threw |-> TRUE]

\* The kill loop: j iterations left; throws when the left needle is empty.
RECURSIVE KillPhase(_, _, _)
KillPhase(c, addedStitches, j) ==
    IF j <= 0 THEN [c |-> c, threw |-> FALSE]
    ELSE IF Len(c.leftNeedle) > 0
         THEN KillPhase(
                [c EXCEPT
                    !.leftNeedle = SubSeq(@, 1, Len(@) - 1),
                    !.allEdges = @ \o VerticalEdges(c.leftNeedle[Len(c.leftNeedle)],
                                                    addedStitches)],
                addedStitches, j - 1)
         ELSE [c |-> c, threw |-> TRUE]

\* Variant of ApplyTechnique that ignores cursor_dir.
ApplyTechniqueNoSwap(c, stitch) ==
    LET tech  == TechOf(stitch)
        c2    == AddPhase(c, stitch, tech)
        added == [n \in 1..(c2.count - c.count) |-> c.count + n - 1]
    IN  KillPhase(c2, added, tech.kill)

\* A token of the technique table.
ApplyTechnique(c, stitch) ==
    LET tech  == TechOf(stitch)
        c1    == IF tech.cursor_dir THEN Swap(c) ELSE c
        c2    == AddPhase(c1, stitch, tech)
        added == [n \in 1..(c2.count - c1.count) |-> c1.count + n - 1]
    IN  KillPhase(c2, added, tech.kill)

\* The reserved cable shape.
IsCable(stitch) == StartsWith(stitch, <<"c">>) /\ EndsWith(stitch, <<"c">>)

IsCastOn(stitch) == stitch = co \/ StartsWith(stitch, co)

\* The branch of the token loop's if/else chain a token takes.
Branch(stitch) ==
    IF IsCastOn(stitch) THEN "co"
    ELSE IF InTechniques(stitch) THEN "tech"
    ELSE IF IsCable(stitch) THEN "cable"
    ELSE "unknown"

\* Variant of EndOfLineRotate that keeps the stitches left on the left needle.
EndOfLineAppend(c) ==
    IF Len(c.rightNeedle) > 0
    THEN [c EXCEPT !.leftNeedle = c.leftNeedle \o c.rightNeedle, !.rightNeedle = <<>>,
                   !.edgeFlag = TRUE]
    ELSE c

\* Variant of EndOfLineRotate that does not re-arm the flag.
EndOfLineKeepFlag(c) ==
    IF Len(c.rightNeedle) > 0
    THEN [c EXCEPT !.leftNeedle = c.rightNeedle, !.rightNeedle = <<>>]
    ELSE c

\* End of a line: a non-empty right needle becomes the left needle.
EndOfLineRotate(c) ==
    IF Len(c.rightNeedle) > 0
    THEN [c EXCEPT !.leftNeedle = c.rightNeedle, !.rightNeedle = <<>>,
                   !.edgeFlag = TRUE]
    ELSE c

UnderflowError(stitch) ==
    <<"Left needle is empty while processing kill stitches for ", stitch>>
UnknownError(stitch) == <<"Unknown stitch '", stitch, "'">>

\* Variant of Failure that hands out the graph built so far.
FailurePartial(message) ==
    [nodes |-> allNodes, edges |-> allEdges, success |-> FALSE, error |-> message]

Failure(message) ==
    [nodes |-> <<>>, edges |-> <<>>, success |-> FALSE, error |-> message]
Success(c) ==
    [nodes |-> c.allNodes, edges |-> c.allEdges, success |-> TRUE, error |-> <<"null">>]

----------------------------------------------------------------------------
(* The state machine *)

\* The page before the first click: lines 1-3, no provider loaded, no run.
NoSim == [nodes |-> <<>>, edges |-> <<>>, counter |-> 0, alpha |-> 0,
          onComplete |-> FALSE, ended |-> 0, completed |-> 0, resolved |-> FALSE,
          mid |-> 0, graph |-> <<>>]

NoSeed == [by |-> "none", stage |-> "none"]

NoSearch == [dist |-> <<>>, weight |-> <<>>, ub |-> 0, lb |-> 0, mid |-> 0]

NoCanvas == [finalNodes |-> <<>>, edges |-> <<>>]

NoSegments == [asked |-> FALSE]

InitGraph ==
    /\ heap = <<>> /\ nodes = <<>> /\ edges = <<>> /\ positionedNodes = <<>>
    /\ pyodide = "none" /\ pc = "parse" /\ sim = NoSim /\ runs = 0 /\ tickLog = <<>>
    /\ seed = NoSeed
    /\ canvas = NoCanvas /\ earlier = NoSim

InitPage ==
    /\ InitGraph
    /\ search = NoSearch /\ segments = NoSegments
    /\ budget = Budget /\ typed = <<>>

Returned == result # NoResult

NoStep == [op |-> "none", stitch |-> NoTok, next |-> NoTok, n |-> 0, consumed |-> 0,
           from |-> 0]

InitParser ==
    /\ i = 0
    /\ allNodes = <<>> /\ allEdges = <<>>
    /\ rightNeedle = <<>> /\ leftNeedle = <<>>
    /\ count = 0 /\ edgeFlag = TRUE
    /\ result = NoResult
    /\ prev = InitState /\ last = NoStep
    /\ passStart = <<>> /\ boundary = TRUE

InitCompiler ==
    /\ InitParser
    /\ InitPage

\* Free text: the pattern is supplied as the compile reads it.
Init ==
    /\ pattern = <<>> /\ text = <<>> /\ closed = FALSE
    /\ InitCompiler

\* A fixed text.
InitFixed ==
    /\ pattern \in FixedTexts /\ text = pattern /\ closed = TRUE
    /\ InitCompiler

SetCompiler(c) ==
    /\ allNodes' = c.allNodes /\ allEdges' = c.allEdges
    /\ rightNeedle' = c.rightNeedle /\ leftNeedle' = c.leftNeedle
    /\ count' = c.count /\ edgeFlag' = c.edgeFlag

\* The history of pass boundaries across a step that leaves the compiler in
\* state c: the first node the step creates starts a pass when a boundary
\* (the start of the compile, a `turn`, a rotation at the end of a line) lies
\* before it; crossed says that the step itself crosses one.
PassHistory(c, crossed, crossedFirst) ==
    LET made == c.count - count
    IN  /\ passStart' = passStart \o
              [n \in 1..made |-> IF n = 1 THEN (boundary \/ crossedFirst) ELSE FALSE]
        /\ boundary' = IF made > 0 THEN crossed /\ ~crossedFirst
                       ELSE (boundary \/ crossed)

End == <<"">>     \* stands for the end of the pattern text; never stored in `text`

\* What the k-th unread item can be (k is 1 or 2): the buffered item; the end
\* when the text is closed; otherwise any item, tokens within the bounds.
Unread(k) ==
    IF Len(text) >= k THEN {text[k]}
    ELSE IF closed THEN {End}
    ELSE {NL, End} \cup
         (IF count < MaxNodes /\ i + k <= MaxTokens THEN Tokens ELSE {})

\* One iteration of the token loop on token s; nx is the item after s, which
\* the code looks at only when s is a bare `co`.
TokenStep(s, nx) ==
    LET stitch == ToLowerCase(s)
        next   == IF nx \in {NL, End, NoTok} THEN NoTok ELSE nx
        branch == Branch(stitch)
        cc     == CastOnCount(stitch, next)
        used   == IF branch = "co" THEN cc.consumed ELSE 1
        tk     == ApplyTechnique(State, stitch)
        c      == CASE branch = "co"   -> CastOn(State, cc.n)
                    [] branch = "tech" -> tk.c
                    [] OTHER           -> State
        known1 == IF text = <<>> THEN <<s>> ELSE text
        known2 == IF Len(known1) >= 2 \/ nx \in {End, NoTok} THEN known1
                  ELSE Append(known1, nx)
    IN  /\ SetCompiler(c)
        /\ text' = SubSeq(known2, used + 1, Len(known2))
        /\ closed' = (closed \/ nx = End)
        /\ i' = i + used
        /\ result' = IF branch = "tech" /\ tk.threw THEN Failure(UnderflowError(stitch))
                     ELSE IF branch = "unknown" THEN Failure(UnknownError(stitch))
                     ELSE result
        /\ prev' = State
        /\ last' = [op |-> branch, stitch |-> stitch, next |-> next,
                    n |-> IF branch = "co" THEN cc.n ELSE 0, consumed |-> used,
                    from |-> i]
        /\ PassHistory(c, stitch = turn, stitch = turn)
        /\ UNCHANGED <<pattern, layout>>

Token ==
    /\ ~Returned
    /\ \E s \in Unread(1) \ {NL, End} :
         \E nx \in (IF ToLowerCase(s) = co THEN Unread(2) ELSE {NoTok}) :
            TokenStep(s, nx)

\* The end of a line: a blank line is skipped, any other ends with the
\* rotation of the needles.  The last line ends with the text.
EndOfLine ==
    /\ ~Returned
    /\ \E s \in Unread(1) \cap ({NL} \cup (IF i > 0 THEN {End} ELSE {})) :
         /\ text' = IF text = <<>> THEN text ELSE Tail(text)
         /\ closed' = (closed \/ s = End)
    /\ LET c == IF i = 0 THEN State ELSE EndOfLineRotate(State)
       IN  /\ SetCompiler(c)
           /\ prev' = State
           /\ last' = [NoStep EXCEPT !.op = IF i = 0 THEN "blank" ELSE "eol"]
           /\ PassHistory(c, i > 0 /\ rightNeedle # <<>>, FALSE)
    /\ i' = 0
    /\ UNCHANGED <<pattern, result, layout>>

\* All lines are done.
Return ==
    /\ ~Returned
    /\ End \in Unread(1) /\ i = 0
    /\ closed' = TRUE
    /\ result' = Success(State)
    /\ prev' = State
    /\ last' = [NoStep EXCEPT !.op = "return"]
    /\ UNCHANGED <<pattern, text, i, compiler, passStart, boundary, layout>>

Next == Token \/ EndOfLine \/ Return

Spec == Init /\ [][Next]_vars

SpecFixed == InitFixed /\ [][Next]_vars

----------------------------------------------------------------------------
(* The page: objects, the click handlers, the layout seeders *)
(*                                                                         *)
(* Objects live in `heap`; an array of objects is a sequence of addresses, *)
(* so that a copy and an alias are different things.  Coordinates are      *)
(* whole numbers: a quotient is rounded where the code divides.            *)

MaxRuns == 2      \* layout runs over one compiled graph

gridSpacing == 40                   \* addGridLayout's default spacing
scale       == 200                  \* addPlanarLayout's default radius
center      == [x |-> 400, y |-> 300]

\* The texts the page is run on: `co N`; two rows of two; a text that
\* underflows; a text that compiles to the empty graph.
LayoutTexts ==
    { KnitText(N, 1) : N \in 1..MaxN } \cup
    { KnitText(2, 2), <<co, NumTok(1), NL, knit, knit>>, <<co, <<"-","1">>>> }

\* obj.field = v
Put(obj, field, v) ==
    [f \in DOMAIN obj \cup {field} |-> IF f = field THEN v ELSE obj[f]]

Has(obj, field) == field \in DOMAIN obj

\* Variant of MapSpread that hands back the objects it was given.
MapSpreadAlias(h, refs) == [heap |-> h, refs |-> refs]

\* array.map(o => ({ ...o })): one new object per element, same fields.
MapSpread(h, refs) ==
    [heap |-> h \o [k \in 1..Len(refs) |-> h[refs[k]]],
     refs |-> [k \in 1..Len(refs) |-> Len(h) + k]]

\* An edge whose source and target d3 has replaced by the node objects.
Linked(e) == Has(e, "linked")

\* [...a].sort((a, b) => a.id - b.id), as a stable insertion sort.
\* The one element of a singleton.  Values are handed on through
\* { F(v) : v \in {e} }, which computes e once.
The(S) == CHOOSE v \in S : TRUE

Insert(h, sorted, a) ==
    LET k == Cardinality({m \in 1..Len(sorted) : h[sorted[m]].id <= h[a].id})
    IN  SubSeq(sorted, 1, k) \o <<a>> \o SubSeq(sorted, k + 1, Len(sorted))

RECURSIVE SortById(_, _, _)
SortById(h, refs, n) ==
    IF n = 0 THEN <<>>
    ELSE The({ Insert(h, sorted, refs[n]) : sorted \in {SortById(h, refs, n - 1)} })

\* Variant of hasHorizontalEdge that takes an edge of any type.
hasEdgeOfAnyType(h, edgeData, prevId, id) ==
    \E k \in 1..Len(edgeData) :
        LET edge == h[edgeData[k]]
        IN  /\ ~Linked(edge)
            /\ \/ (edge.source = prevId /\ edge.target = id)
               \/ (edge.target = prevId /\ edge.source = id)

hasHorizontalEdge(h, edgeData, prevId, id) ==
    \E k \in 1..Len(edgeData) :
        LET edge == h[edgeData[k]]
        IN  /\ edge.type = "horizontal"
            /\ ~Linked(edge)
            /\ \/ (edge.source = prevId /\ edge.target = id)
               \/ (edge.target = prevId /\ edge.source = id)

\* Variant of rowGroups that starts a row at every node.
rowGroupsPerNode(h, sortedNodes, edgeData, n) == [k \in 1..n |-> <<sortedNodes[k]>>]

\* The rows after the first n nodes of the sorted list; the last is currentRow.
RECURSIVE rowGroups(_, _, _, _)
rowGroups(h, sortedNodes, edgeData, n) ==
    IF n = 0 THEN <<>>
    ELSE IF n = 1 THEN << <<sortedNodes[1]>> >>
    ELSE The({ IF hasHorizontalEdge(h, edgeData, h[sortedNodes[n - 1]].id, h[sortedNodes[n]].id)
               THEN [g EXCEPT ![Len(g)] = Append(@, sortedNodes[n])]
               ELSE Append(g, <<sortedNodes[n]>>) :
               g \in {rowGroups(h, sortedNodes, edgeData, n - 1)} })

\* Variant of Reverse that keeps the order.
ReverseNot(q) == q

\* [...row].reverse()
Reverse(q) == [k \in 1..Len(q) |-> q[Len(q) + 1 - k]]

\* Lines 353-385: rows bottom to top, odd rows reversed and shifted by half a
\* spacing, every row centred on center.x.
gridPositions(cp, rows, nodeData) ==
    LET numRows == Len(rows)
        verticalSpacing == (gridSpacing * 8) \div 10
        gridHeight == (numRows - 1) * verticalSpacing
        startY == center.y - gridHeight \div 2
        rowY(r) == startY + (numRows - r) * verticalSpacing
        rowWidth(r) == (Len(rows[r]) - 1) * gridSpacing
        horizontalOffset(r) == IF (r - 1) % 2 = 0 THEN 0 ELSE gridSpacing \div 2
        rowStartX(r) == center.x - rowWidth(r) \div 2 + horizontalOffset(r)
        processedRow(r) == IF (r - 1) % 2 # 0 THEN Reverse(rows[r]) ELSE rows[r]
        Cell(a) == CHOOSE rc \in { <<r, c>> \in (1..numRows) \X (1..Len(nodeData)) :
                                      c <= Len(rows[r]) /\ processedRow(r)[c] = a } : TRUE
        Place(a) == LET rc == Cell(a)
                    IN  Put(Put(cp.heap[a], "x", rowStartX(rc[1]) + (rc[2] - 1) * gridSpacing),
                            "y", rowY(rc[1]))
    IN  [heap |-> [a \in 1..Len(cp.heap) |->
                     IF \E k \in 1..Len(cp.refs) : cp.refs[k] = a
                     THEN Place(a) ELSE cp.heap[a]] \o <<>>,
         refs |-> cp.refs]

addGridLayout(h, nodeData, edgeData) ==
    IF Len(nodeData) = 0 THEN [heap |-> h, refs |-> <<>>]
    ELSE The(UNION UNION {
            { { gridPositions(cp, rows, nodeData) :
                  rows \in {rowGroups(cp.heap, sortedNodes, edgeData, Len(sortedNodes))} } :
               sortedNodes \in {SortById(cp.heap, cp.refs, Len(cp.refs))} } :
            cp \in {MapSpread(h, nodeData)} })

\* The click on processBtn has read the text; parsePattern runs as Next.
InitLayout ==
    /\ pattern \in LayoutTexts /\ text = pattern /\ closed = TRUE
    /\ InitCompiler

parser == <<pattern, text, closed, i, compiler, result, history>>

\* processBtn, lines 1349-1357: a failed compile is reported and the handler
\* ends; a successful one becomes the page's graph.
Parsed ==
    /\ pc = "parse" /\ Returned
    /\ IF result.success
       THEN /\ runs' = 1
            /\ heap' = heap \o result.nodes \o result.edges
            /\ nodes' = [k \in 1..Len(result.nodes) |-> Len(heap) + k]
            /\ edges' = [k \in 1..Len(result.edges) |-> Len(heap) + Len(result.nodes) + k]
            /\ pc' = "layout"
       ELSE /\ pc' = "idle"
            /\ UNCHANGED <<heap, nodes, edges, runs>>
    /\ UNCHANGED <<parser, aside, positionedNodes, pyodide, sim, tickLog, seed>>

\* The grid radio button is checked: addGridLayout, then line 1374.
SeedGrid ==
    /\ pc = "layout"
    /\ \E r \in {addGridLayout(heap, nodes, edges)} :
           /\ heap' = r.heap
           /\ positionedNodes' = r.refs
    /\ pc' = "seeded"
    /\ seed' = [by |-> IF Len(nodes) = 0 THEN "none" ELSE "grid", stage |-> "none"]
    /\ UNCHANGED <<parser, aside, nodes, edges, pyodide, sim, runs, tickLog>>

\* Math.cos and Math.sin of 2*PI*index/n in thousandths, n = 1..8.
cosMilli ==
    << <<1000>>,
       <<1000, -1000>>,
       <<1000, -500, -500>>,
       <<1000, 0, -1000, 0>>,
       <<1000, 309, -809, -809, 309>>,
       <<1000, 500, -500, -1000, -500, 500>>,
       <<1000, 623, -223, -901, -901, -223, 623>>,
       <<1000, 707, 0, -707, -1000, -707, 0, 707>> >>
sinMilli ==
    << <<0>>,
       <<0, 0>>,
       <<0, 866, -866>>,
       <<0, 1000, 0, -1000>>,
       <<0, 951, 588, -588, -951>>,
       <<0, 866, 866, 0, -866, -866>>,
       <<0, 782, 975, 434, -434, -975, -782>>,
       <<0, 707, 1000, 707, 0, -707, -1000, -707>> >>

\* a / b to the nearest whole number, b > 0
Round(a, b) == (2 * a + b) \div (2 * b)

\* Variant of circularPosition that counts positions from 1.
circularPositionFromOne(index, n) ==
    [x |-> center.x + Round(scale * cosMilli[n][((index + 1) % n) + 1], 1000),
     y |-> center.y + Round(scale * sinMilli[n][((index + 1) % n) + 1], 1000)]

\* Lines 290-292: position `index` of n on the circle.
circularPosition(index, n) ==
    [x |-> center.x + Round(scale * cosMilli[n][index + 1], 1000),
     y |-> center.y + Round(scale * sinMilli[n][index + 1], 1000)]

\* The catch block of addPlanarLayout, lines 288-294.
circularPositions(cp) ==
    LET n == Len(cp.refs)
        Index(a) == CHOOSE k \in 1..n : cp.refs[k] = a
    IN  [heap |-> [a \in 1..Len(cp.heap) |->
                     IF \E k \in 1..n : cp.refs[k] = a
                     THEN Put(Put(cp.heap[a], "x", circularPosition(Index(a) - 1, n).x),
                              "y", circularPosition(Index(a) - 1, n).y)
                     ELSE cp.heap[a]] \o <<>>,
         refs |-> cp.refs]

circularFallback(h, nodeData) ==
    The({ circularPositions(cp) : cp \in {MapSpread(h, nodeData)} })

\* What the embedding provider may answer for n nodes: one point for all, a
\* column, a curve with all x and all y different.
ProviderLayouts(n) ==
    { [k \in 1..n |-> [x |-> 400, y |-> 300]],
      [k \in 1..n |-> [x |-> 400, y |-> 100 + 100 * k]],
      [k \in 1..n |-> [x |-> 300 + 50 * k, y |-> 200 + 30 * k * k]] }

\* Line 281: the provider's answer converted to objects, one per node handed
\* over, each the node's fields and the provider's x and y.
providerResult(h, nodeData, pos) ==
    [heap |-> h \o [k \in 1..Len(nodeData) |->
                      Put(Put(h[nodeData[k]], "x", pos[k].x), "y", pos[k].y)],
     refs |-> [k \in 1..Len(nodeData) |-> Len(h) + k]]

Awaiting == {"loadPyodide", "loadPackage", "runPython"}

\* addPlanarLayout returns r to the handler, which runs line 1374.
PlanarReturns(layoutNodes, by, stage) ==
    /\ \E r \in {layoutNodes} :
           /\ heap' = r.heap
           /\ positionedNodes' = r.refs
    /\ pc' = "seeded"
    /\ seed' = [by |-> by, stage |-> stage]

PlanarAwaits(call) ==
    /\ pc' = call
    /\ UNCHANGED <<heap, positionedNodes, seed>>

\* The planar radio button is checked: addPlanarLayout up to its first await.
\* No node: returns []. loadPyodide not defined on the page: the catch block.
SeedPlanar ==
    /\ pc = "layout"
    /\ \/ /\ Len(nodes) = 0
          /\ PlanarReturns([heap |-> heap, refs |-> <<>>], "none", "none")
       \/ /\ Len(nodes) > 0 /\ pyodide = "none"
          /\ PlanarAwaits("loadPyodide")
       \/ /\ Len(nodes) > 0 /\ pyodide = "none"
          /\ PlanarReturns(circularFallback(heap, nodes), "circular", "unavailable")
       \/ /\ Len(nodes) > 0 /\ pyodide # "none"
          /\ PlanarAwaits("runPython")
    /\ UNCHANGED <<parser, aside, nodes, edges, pyodide, sim, runs, tickLog>>

\* The provider answers the call awaited: loadPyodide (line 206), loadPackage
\* (line 207), runPython (line 278) followed by the conversion of line 281,
\* which yields the result or raises.
ProviderResponds ==
    /\ pc \in Awaiting
    /\ \/ /\ pc = "loadPyodide"
          /\ pyodide' = "loaded"
          /\ PlanarAwaits("loadPackage")
       \/ /\ pc = "loadPackage"
          /\ pyodide' = "ready"
          /\ PlanarAwaits("runPython")
       \/ /\ pc = "runPython"
          /\ \E pos \in ProviderLayouts(Len(nodes)) :
                PlanarReturns(providerResult(heap, nodes, pos), "provider", "none")
          /\ UNCHANGED pyodide
       \/ /\ pc = "runPython"
          /\ PlanarReturns(circularFallback(heap, nodes), "circular", "convert")
          /\ UNCHANGED pyodide
    /\ UNCHANGED <<parser, aside, nodes, edges, sim, runs, tickLog>>

\* The provider raises in the call awaited: the catch block.
ProviderRaises ==
    /\ pc \in Awaiting
    /\ PlanarReturns(circularFallback(heap, nodes), "circular", pc)
    /\ UNCHANGED <<parser, aside, nodes, edges, pyodide, sim, runs, tickLog>>

----------------------------------------------------------------------------
(* The simulation engine: applyForceSimulation *)

MaxMovers == 1    \* nodes the solver gives a velocity in one tick

fallbackX == 500
fallbackY == 300

\* The velocities the solver hands to a tick, and the values of
\* (Math.random() - 0.5) * 30.
Velocities == { <<0, 0>>, <<700, -1200>> }
Jitters    == { -15, 14 }

Range(q) == {q[k] : k \in 1..Len(q)}
MinOf(S) == CHOOSE v \in S : \A w \in S : v <= w
MaxOf(S) == CHOOSE v \in S : \A w \in S : v >= w

\* Object.assign(obj, rec)
Puts(obj, rec) ==
    [f \in DOMAIN obj \cup DOMAIN rec |-> IF f \in DOMAIN rec THEN rec[f] ELSE obj[f]]

\* d3.extent(nodes, d => d[field]): the least and the greatest of the numbers,
\* none when there is no number.
extent(h, refs, field) ==
    LET vals == {h[a][field] : a \in {b \in Range(refs) : Has(h[b], field)}}
    IN  IF vals = {} THEN [none |-> TRUE, lo |-> 0, hi |-> 0]
        ELSE [none |-> FALSE, lo |-> MinOf(vals), hi |-> MaxOf(vals)]

\* Variant of remap that leaves out the shift by the lower end.
remapUnshifted(obj, field, ext) ==
    IF ext.none \/ ~Has(obj, field) \/ ext.hi = ext.lo
    THEN [nan |-> TRUE, val |-> 0]
    ELSE [nan |-> FALSE, val |-> (obj[field] * 1000) \div (ext.hi - ext.lo)]

\* Lines 456-457: (v - e[0]) / (e[1] - e[0]) * 1000.  Not a number when the
\* extent has no width (0 / 0) or a term is undefined.
remap(obj, field, ext) ==
    IF ext.none \/ ~Has(obj, field) \/ ext.hi = ext.lo
    THEN [nan |-> TRUE, val |-> 0]
    ELSE [nan |-> FALSE, val |-> ((obj[field] - ext.lo) * 1000) \div (ext.hi - ext.lo)]

\* The body of nodes.forEach, lines 454-470.
preprocess(obj, extentx, extenty) ==
    LET rx == remap(obj, "x", extentx)
        ry == remap(obj, "y", extenty)
        x  == IF rx.nan \/ ry.nan THEN fallbackX ELSE rx.val
        y  == IF rx.nan \/ ry.nan THEN fallbackY ELSE ry.val
    IN  Puts(obj, [x |-> x, y |-> y, vx |-> 0, vy |-> 0, x_old |-> x, y_old |-> y])

\* d3.forceLink(edges).id(d => d.id): source and target become the node objects.
linkEdge(h, ns, e) ==
    LET find(id) == CHOOSE a \in Range(ns) : h[a].id = id
    IN  Puts(e, [source |-> find(e.source), target |-> find(e.target),
                 weight |-> IF e.weight = 0 THEN 10 ELSE e.weight,
                 linked |-> TRUE])

\* applyForceSimulation up to the start of the solver, lines 405-527.
Simulate ==
    /\ pc = "seeded"
    /\ \E onComplete \in BOOLEAN :
         \E ncp \in {MapSpread(heap, positionedNodes)} :
         \E ecp \in {MapSpread(ncp.heap, edges)} :
         \E extentx \in {extent(ncp.heap, ncp.refs, "x")} :
         \E extenty \in {extent(ncp.heap, ncp.refs, "y")} :
         \E h1 \in {[a \in 1..Len(ecp.heap) |->
                        IF a \in Range(ncp.refs)
                        THEN preprocess(ecp.heap[a], extentx, extenty)
                        ELSE ecp.heap[a]] \o <<>>} :
             /\ heap' = [a \in 1..Len(h1) |->
                           IF a \in Range(ecp.refs)
                           THEN linkEdge(h1, ncp.refs, h1[a]) ELSE h1[a]] \o <<>>
             /\ sim' = [nodes |-> ncp.refs, edges |-> ecp.refs, counter |-> 0,
                        alpha |-> budget, onComplete |-> onComplete,
                        ended |-> 0, completed |-> 0, resolved |-> FALSE,
                        mid |-> 0, graph |-> edges]
    /\ pc' = "simulating"
    /\ tickLog' = <<>>
    /\ UNCHANGED <<parser, aside, nodes, edges, positionedNodes, pyodide, runs, seed>>

\* Variant of onSegment that looks at x alone.
onSegmentXOnly(a, b, c) ==
    MinOf({a.x, c.x}) <= b.x /\ b.x <= MaxOf({a.x, c.x})

orientation(a, b, c) ==
    LET val == (b.y - a.y) * (c.x - b.x) - (b.x - a.x) * (c.y - b.y)
    IN  IF val = 0 THEN 0 ELSE IF val > 0 THEN 1 ELSE 2

onSegment(a, b, c) ==
    /\ MinOf({a.x, c.x}) <= b.x /\ b.x <= MaxOf({a.x, c.x})
    /\ MinOf({a.y, c.y}) <= b.y /\ b.y <= MaxOf({a.y, c.y})

\* Variant of doSegmentsIntersect whose general case looks at the line of the
\* first segment alone.
doSegmentsIntersectOneSided(p1, p2, q1, q2) ==
    LET o1 == orientation(p1, p2, q1)
        o2 == orientation(p1, p2, q2)
        o3 == orientation(q1, q2, p1)
        o4 == orientation(q1, q2, p2)
    IN  \/ o1 # o2
        \/ o1 = 0 /\ onSegment(p1, q1, p2)
        \/ o2 = 0 /\ onSegment(p1, q2, p2)
        \/ o3 = 0 /\ onSegment(q1, p1, q2)
        \/ o4 = 0 /\ onSegment(q1, p2, q2)

doSegmentsIntersect(p1, p2, q1, q2) ==
    LET o1 == orientation(p1, p2, q1)
        o2 == orientation(p1, p2, q2)
        o3 == orientation(q1, q2, p1)
        o4 == orientation(q1, q2, p2)
    IN  \/ o1 # o2 /\ o3 # o4
        \/ o1 = 0 /\ onSegment(p1, q1, p2)
        \/ o2 = 0 /\ onSegment(p1, q2, p2)
        \/ o3 = 0 /\ onSegment(q1, p1, q2)
        \/ o4 = 0 /\ onSegment(q1, p2, q2)

position(h, a) == [x |-> h[a].x, y |-> h[a].y]
lastKnown(h, a) == [x |-> h[a].x_old, y |-> h[a].y_old]

\* Variant of adjDict that follows the edges that start at n only.
adjDictOutgoing(h, es, a) ==
    {h[e].target : e \in {f \in Range(es) : h[f].source = a}}

\* adjDict[n.id], lines 477-487: the nodes an edge joins to n.
adjDict(h, es, a) ==
    {h[e].target : e \in {f \in Range(es) : h[f].source = a}} \cup
    {h[e].source : e \in {f \in Range(es) : h[f].target = a}}

\* Variant of safe that tests against the first edge only.
safeFirstEdge(h, es, a, pos) ==
    \A n2 \in adjDict(h, es, a) : \A k \in 1..Len(es) :
        LET e == h[es[k]]
        IN  \/ k > 1
            \/ h[e.source].id = h[a].id \/ h[e.target].id = h[a].id
            \/ h[e.source].id = h[n2].id \/ h[e.target].id = h[n2].id
            \/ ~doSegmentsIntersect(pos, lastKnown(h, n2),
                                    lastKnown(h, e.source), lastKnown(h, e.target))

\* Lines 540-561: the verdict on candidate pos for node a.
safe(h, es, a, pos) ==
    \A n2 \in adjDict(h, es, a) : \A k \in 1..Len(es) :
        LET e == h[es[k]]
        IN  \/ h[e.source].id = h[a].id \/ h[e.target].id = h[a].id
            \/ h[e.source].id = h[n2].id \/ h[e.target].id = h[n2].id
            \/ ~doSegmentsIntersect(pos, lastKnown(h, n2),
                                    lastKnown(h, e.source), lastKnown(h, e.target))

\* Lines 577-584 and 564-565 with 583-584.
Update(h, a, rec) == [b \in 1..Len(h) |-> IF b = a THEN Puts(h[b], rec) ELSE h[b]] \o <<>>

commit(h, a, pos) ==
    Update(h, a, [x |-> pos.x, y |-> pos.y, x_old |-> pos.x, y_old |-> pos.y])

\* Variant of revert that leaves the node where the solver put it.
revertKeepsMove(h, a) ==
    Update(h, a, [x_old |-> h[a].x, y_old |-> h[a].y])

revert(h, a) ==
    Update(h, a, [x |-> h[a].x_old, y |-> h[a].y_old])

\* The while loop of lines 539-585 from its test on: the outcomes over the
\* draws of Math.random, each with the number of candidates tested and the
\* last verdict.
RECURSIVE wiggleLoop(_, _, _, _, _, _, _)
wiggleLoop(h, es, a, pos, wiggle, tests, verdict) ==
    IF ~(wiggle < 2) THEN {[heap |-> h, tests |-> tests, safe |-> verdict]}
    ELSE IF safe(h, es, a, pos)
    THEN UNION { wiggleLoop(h2, es, a, pos, 10, tests + 1, TRUE) :
                 h2 \in {commit(h, a, pos)} }
    ELSE UNION { wiggleLoop(h2, es, a,
                            [x |-> h[a].x_old + jx, y |-> h[a].y_old + jy],
                            wiggle + 1, tests + 1, FALSE) :
                 h2 \in {revert(h, a)}, jx \in Jitters, jy \in Jitters }

\* nodes.forEach of line 535 from the k-th node on.
RECURSIVE tickNodes(_, _, _, _, _)
tickNodes(h, ns, es, k, log) ==
    IF k > Len(ns) THEN {[heap |-> h, log |-> log]}
    ELSE LET a == ns[k]
             pos == [x |-> h[a].x_old + h[a].vx, y |-> h[a].y_old + h[a].vy]
         IN  UNION { tickNodes(o.heap, ns, es, k + 1,
                               Append(log, [before |-> lastKnown(h, a),
                                            after |-> position(o.heap, a),
                                            last |-> lastKnown(o.heap, a),
                                            tests |-> o.tests, safe |-> o.safe])) :
                     o \in wiggleLoop(h, es, a, pos, 0, 0, TRUE) }

VelocityFields(n) ==
    { v \in [1..n -> Velocities] :
        Cardinality({k \in 1..n : v[k] # <<0, 0>>}) <= MaxMovers }

\* One step of the solver: it sets the velocities and moves the nodes by them.
solverStep(h, ns, v) ==
    [a \in 1..Len(h) |->
        IF a \in Range(ns)
        THEN LET k == CHOOSE m \in 1..Len(ns) : ns[m] = a
             IN  Puts(h[a], [vx |-> v[k][1], vy |-> v[k][2],
                             x |-> h[a].x + v[k][1], y |-> h[a].y + v[k][2]])
        ELSE h[a]] \o <<>>

RECURSIVE SumSquares(_, _, _)
SumSquares(h, ns, k) ==
    IF k = 0 THEN 0
    ELSE SumSquares(h, ns, k - 1) + h[ns[k]].vx * h[ns[k]].vx + h[ns[k]].vy * h[ns[k]].vy

\* Variant of energyCheckDue that is due on every tick.
energyCheckAlways(counter) == TRUE

\* Line 588: counter++ % 10 == 0, on the counter before the increment.
energyCheckDue(counter) == counter % 10 = 0

\* Line 589-591: sum / nodes.length < 0.01, false for no node (0 / 0).
lowEnergy(h, ns) == 100 * SumSquares(h, ns, Len(ns)) < Len(ns)

\* A step of the solver and the tick handler, lines 528-611.
Tick ==
    /\ pc = "simulating" /\ sim.alpha > 0
    /\ \E v \in VelocityFields(Len(sim.nodes)) :
         \E h1 \in {solverStep(heap, sim.nodes, v)} :
         \E out \in tickNodes(h1, sim.nodes, sim.edges, 1, <<>>) :
            /\ heap' = out.heap
            /\ tickLog' = out.log
            /\ sim' = [sim EXCEPT
                          !.counter = @ + 1,
                          !.alpha = IF energyCheckDue(sim.counter) /\ lowEnergy(out.heap, sim.nodes)
                                    THEN 0 ELSE @ - 1]
    /\ UNCHANGED <<parser, aside, nodes, edges, positionedNodes, pyodide, pc, runs, seed>>

-----------------------------------------------------------------------------
(* The scale calibration of the end handler, lines 615-641                   *)
(*                                                                         *)
(* A scale is a whole number of units of ScaleUnit to 1, so that 0.0001 is  *)
(* 4096 units and every midpoint of the search is whole.  The two sums of  *)
(* squares exceed the integers of the checker; their order is computed      *)
(* exactly from their difference,                                           *)
(*   f(S1) - f(S2) = (S1 - S2) * ((S1 + S2) * P - 180 * ScaleUnit * Q)       *)
(*                   / (90 * ScaleUnit)^2,                                   *)
(* where P and Q are the sums over the edges of d^2 and d for               *)
(* d = dist * 30 / weight (weight in tenths, so that 30 * weight is 3 * w). *)

ScaleUnit == 40960000
UnitFactors == <<2, 2, 2, 2, 2, 2, 2, 2, 2, 2, 2, 2, 2, 2, 2, 2, 5, 5, 5, 5>>
ub0 == 205209600       \* 5.01
lb0 == 409600          \* 0.01
tolerance == 4096      \* 0.0001
probe == 4096          \* 0.0001

Sign(v) == IF v > 0 THEN 1 ELSE IF v < 0 THEN -1 ELSE 0

RECURSIVE SumOver(_, _)
SumOver(seq, k) == IF k = 0 THEN 0 ELSE SumOver(seq, k - 1) + seq[k]

\* dist / (30 * weight) in ninetieths.
stretch(dist, weight) == [k \in 1..Len(dist) |-> dist[k] * (30 \div weight[k])]

\* r * ScaleUnit / p for 0 <= r < p, by long division: quotient and remainder.
RECURSIVE LongDiv(_, _, _, _)
LongDiv(r, p, k, acc) ==
    IF k > Len(UnitFactors) THEN [quot |-> acc, rem |-> r]
    ELSE The({ LongDiv(d[1], p, k + 1, d[2]) :
                 d \in { <<(r * UnitFactors[k]) % p,
                           acc * UnitFactors[k] + (r * UnitFactors[k]) \div p>> } })

\* The sign of K * P - 180 * ScaleUnit * Q for 0 <= K < 11 * ScaleUnit.
Slope(K, P, Q) ==
    IF P = 0 THEN 0
    ELSE IF (180 * Q) \div P >= 11 THEN -1
    ELSE The({ LET T == ((180 * Q) \div P) * ScaleUnit + fr.quot
               IN  IF K > T THEN 1
                   ELSE IF K < T THEN -1
                   ELSE IF fr.rem = 0 THEN 0 ELSE -1 :
               fr \in { LongDiv((180 * Q) % P, P, 1, 0) } })

\* The sign of objective(S1) - objective(S2), the objective being the sum of
\* lines 623-632: over the edges, ((dist * S - 30 * weight) / (30 * weight)) ** 2.
compareObjective(S1, S2, dist, weight) ==
    The({ The({ Sign(S1 - S2) * Slope(S1 + S2, P, Q) :
                P \in { SumOver([k \in 1..Len(d) |-> d[k] * d[k]], Len(d)) },
                Q \in { SumOver(d, Len(d)) } }) :
          d \in { stretch(dist, weight) } })

startSearch(dist, weight) ==
    [dist |-> dist, weight |-> weight, ub |-> ub0, lb |-> lb0, mid |-> 0]

\* Variant of searching with half the tolerance.
searchingTwiceAsFine(s) == s.ub - s.lb > tolerance \div 2

\* Line 618
searching(s) == s.ub - s.lb > tolerance

\* One turn of the while loop, lines 618-639.
searchStep(s) ==
    The({ [s EXCEPT !.mid = mid,
                    !.ub = IF c1Less THEN mid ELSE @,
                    !.lb = IF c1Less THEN @ ELSE mid] :
          mid \in { (s.ub + s.lb) \div 2 },
          c1Less \in { compareObjective((s.ub + s.lb) \div 2, (s.ub + s.lb) \div 2 + probe,
                                        s.dist, s.weight) < 0 } })

RECURSIVE calibrate(_)
calibrate(s) ==
    IF searching(s) THEN The({ calibrate(t) : t \in {searchStep(s)} }) ELSE s.mid

\* Math.sqrt of line 626, rounded down to a whole number.
RECURSIVE sqrtIn(_, _, _)
sqrtIn(n, lo, hi) ==
    IF lo = hi THEN lo
    ELSE The({ IF m * m <= n THEN sqrtIn(n, m, hi) ELSE sqrtIn(n, lo, m - 1) :
               m \in { (lo + hi + 1) \div 2 } })

\* Lines 624-626: the length of each edge of the run.
lengths(h, es) ==
    [k \in 1..Len(es) |->
        The({ sqrtIn(dx * dx + dy * dy, 0, 4095) :
              dx \in { h[h[es[k]].source].x - h[h[es[k]].target].x },
              dy \in { h[h[es[k]].source].y - h[h[es[k]].target].y } })] \o <<>>

weights(h, es) == [k \in 1..Len(es) |-> h[es[k]].weight] \o <<>>

\* Lines 655-698: the canvas keeps the nodes it was given; redraw reads the
\* global edges.
setupDrawingCanvas(finalNodes) == [finalNodes |-> finalNodes, edges |-> edges]

\* Variant of endRun that resolves the promise and leaves the callback out.
endRunNoCallback(s) ==
    [s EXCEPT !.ended = @ + 1, !.resolved = TRUE]

\* Lines 643-646 of the end handler: the callback if there is one, then the
\* promise.
endRun(s) ==
    [s EXCEPT !.ended = @ + 1,
              !.completed = IF s.onComplete THEN @ + 1 ELSE @,
              !.resolved = TRUE]

\* The end handler, lines 612-647: the solver has stopped and its timer with
\* it.  The click handler that awaits the promise resumes in the same task
\* (lines 1378-1394) and ends.
EndHandler ==
    /\ pc = "simulating" /\ sim.alpha = 0
    /\ \E mid \in {calibrate(startSearch(lengths(heap, sim.edges), weights(heap, sim.edges)))} :
          sim' = [endRun(sim) EXCEPT !.mid = mid]
    /\ canvas' = setupDrawingCanvas(sim.nodes)
    /\ pc' = "idle"
    /\ UNCHANGED <<parser, search, earlier, segments, heap, nodes, edges, positionedNodes,
                   pyodide, runs, tickLog, seed, budget, typed>>

\* The objects the page still refers to once a run is over.
Collect(h) ==
    SubSeq(h, 1, MaxOf({0} \cup Range(nodes) \cup Range(edges) \cup Range(positionedNodes)))

\* The click on simulationLayoutBtn, lines 1398-1402: a further run.
ClickSimulation ==
    /\ pc = "idle" /\ Len(nodes) > 0 /\ runs < MaxRuns
    /\ earlier = NoSim
    /\ runs' = runs + 1
    /\ heap' = Collect(heap)
    /\ sim' = NoSim /\ tickLog' = <<>> /\ canvas' = NoCanvas
    /\ pc' = "layout"
    /\ UNCHANGED <<parser, search, earlier, segments, nodes, edges, positionedNodes,
                   pyodide, seed, budget, typed>>

NextLayout ==
    \/ Next
    \/ Parsed \/ SeedGrid \/ SeedPlanar \/ ProviderResponds \/ ProviderRaises
    \/ Simulate \/ Tick \/ EndHandler \/ ClickSimulation

SpecLayout == InitLayout /\ [][NextLayout]_vars

\* The page's own steps are taken when they can be: a handler runs to its
\* next await, and the solver's timer fires until the solver stops.  Nothing
\* makes the embedding provider answer or raise, or the user click again.
FairLayout ==
    /\ SpecLayout
    /\ WF_vars(Next) /\ WF_vars(Parsed) /\ WF_vars(SeedGrid \/ SeedPlanar)
    /\ WF_vars(Simulate) /\ WF_vars(Tick) /\ WF_vars(EndHandler)

----------------------------------------------------------------------------
(* The grid seeder on graphs of several rows: the click on processBtn with  *)
(* the grid radio button checked, up to line 1374.                          *)

kfb == <<"k","f","b">>

\* Rows of equal width; a row that widens; a row that narrows; a `turn` in
\* the middle of a line.
GridTexts ==
    { KnitText(N, R) : N \in 1..MaxN, R \in 1..MaxR } \cup
    { <<co, NumTok(3), NL, knit, kfb, knit, NL, knit, knit>>,
      <<co, NumTok(2), turn, knit, knit, NL, kfb>> }

InitGrid ==
    /\ pattern \in GridTexts /\ text = pattern /\ closed = TRUE
    /\ InitCompiler

NextGrid == Next \/ Parsed \/ SeedGrid

SpecGrid == InitGrid /\ [][NextGrid]_vars

----------------------------------------------------------------------------
(* Runs of the engine that are long enough to reach the second energy      *)
(* check, on graphs of one and of two nodes.                                *)

EnergyTexts == { KnitText(1, 1), KnitText(2, 1) }

InitEnergy ==
    /\ pattern \in EnergyTexts /\ text = pattern /\ closed = TRUE
    /\ InitParser
    /\ InitGraph
    /\ search = NoSearch /\ segments = NoSegments
    /\ budget = LongBudget /\ typed = <<>>

NextEnergy == Next \/ Parsed \/ SeedGrid \/ Simulate \/ Tick \/ EndHandler

SpecEnergy == InitEnergy /\ [][NextEnergy]_vars

----------------------------------------------------------------------------
(* The filter in front of the compiler: filterPattern and countColumns.     *)
(*                                                                         *)
(* A text is the sequence of its tokens and line ends; the blanks between   *)
(* tokens are not kept.  A token none of whose characters is left vanishes. *)

MaxInput == 3     \* items of the text typed into the page

\* \w of a regular expression
IsWordChar(ch) ==
    \/ ch = "_" \/ IsDigit(ch)
    \/ \E n \in 1..26 : Lower[n] = ch \/ Upper[n] = ch

\* Variant of stripTurn that takes `turn` in small letters only.
RECURSIVE stripTurnExact(_, _)
stripTurnExact(s, p) ==
    IF p > Len(s) THEN <<>>
    ELSE IF /\ p + 3 <= Len(s) /\ SubSeq(s, p, p + 3) = turn
            /\ (p = 1 \/ ~IsWordChar(s[p - 1]))
            /\ (p + 4 > Len(s) \/ ~IsWordChar(s[p + 4]))
         THEN stripTurnExact(s, p + 4)
         ELSE <<s[p]>> \o stripTurnExact(s, p + 1)

\* Line 1267, on one token from its p-th character on: replace(/\bturn\b/gi, '').
\* White space is not a word character, so that the ends of a token are word
\* boundaries when a word character stands there.
RECURSIVE stripTurn(_, _)
stripTurn(s, p) ==
    IF p > Len(s) THEN <<>>
    ELSE IF /\ p + 3 <= Len(s) /\ ToLowerCase(SubSeq(s, p, p + 3)) = turn
            /\ (p = 1 \/ ~IsWordChar(s[p - 1]))
            /\ (p + 4 > Len(s) \/ ~IsWordChar(s[p + 4]))
         THEN stripTurn(s, p + 4)
         ELSE <<s[p]>> \o stripTurn(s, p + 1)

RECURSIVE replaceTurn(_)
replaceTurn(t) ==
    IF t = <<>> THEN <<>>
    ELSE IF Head(t) = NL THEN <<NL>> \o replaceTurn(Tail(t))
    ELSE The({ (IF left = <<>> THEN <<>> ELSE <<left>>) \o replaceTurn(Tail(t)) :
               left \in {stripTurn(Head(t), 1)} })

\* String.prototype.trim
RECURSIVE Trim(_)
Trim(t) ==
    IF t # <<>> /\ Head(t) = NL THEN Trim(Tail(t))
    ELSE IF t # <<>> /\ t[Len(t)] = NL THEN Trim(SubSeq(t, 1, Len(t) - 1))
    ELSE t

\* split('\n'): the lines of a text, each the sequence of its tokens.
RECURSIVE Lines(_, _)
Lines(t, line) ==
    IF t = <<>> THEN <<line>>
    ELSE IF Head(t) = NL THEN <<line>> \o Lines(Tail(t), <<>>)
    ELSE Lines(Tail(t), Append(line, Head(t)))

\* A number of countColumns: tech.add of an inherited key is undefined, and a
\* sum with it is NaN.
Num(v) == [nan |-> FALSE, val |-> v]
NaN == [nan |-> TRUE, val |-> 0]
Plus(a, tech, times) ==
    IF a.nan \/ tech \in InheritedKeys THEN NaN ELSE Num(a.val + TechOf(tech).add * times)

\* Lines 1213-1252: the loop over the tokens of a line, from the k-th on.
RECURSIVE lineColumns(_, _, _)
lineColumns(tokens, k, columnCount) ==
    IF k > Len(tokens) THEN columnCount
    ELSE The({
           IF IsCastOn(token)
           THEN The({ lineColumns(tokens, k + cc.consumed,
                                  IF columnCount.nan THEN NaN
                                  ELSE Num(columnCount.val + cc.n)) :
                      cc \in { CastOnCount(token, IF k + 1 <= Len(tokens)
                                                  THEN tokens[k + 1] ELSE NoTok) } })
           ELSE IF InTechniques(token)
           THEN lineColumns(tokens, k + 1, Plus(columnCount, token, 1))
           ELSE IF /\ ~ParseInt(token).nan /\ k > 1
                   /\ InTechniques(ToLowerCase(tokens[k - 1]))
           THEN lineColumns(tokens, k + 1,
                            Plus(columnCount, ToLowerCase(tokens[k - 1]),
                                 ParseInt(token).val - 1))
           ELSE lineColumns(tokens, k + 1, columnCount) :
           token \in { ToLowerCase(tokens[k]) } })

\* Math.max
MathMax(a, b) == IF a.nan \/ b.nan THEN NaN ELSE IF a.val >= b.val THEN a ELSE b

RECURSIVE maxColumns(_, _, _)
maxColumns(lines, n, acc) ==
    IF n > Len(lines) THEN acc
    ELSE The({ maxColumns(lines, n + 1, m) :
               m \in { MathMax(acc, lineColumns(lines[n], 1, Num(0))) } })

\* Lines 1203-1258
countColumns(t) == maxColumns(Lines(Trim(t), <<>>), 1, Num(0))

\* String(n) for n >= 0
RECURSIVE Decimal(_)
Decimal(n) == IF n < 10 THEN <<Digits[n + 1]>> ELSE Decimal(n \div 10) \o <<Digits[(n % 10) + 1]>>

\* Lines 1265-1283
filterPattern(t) ==
    The({ IF filtered = <<>> \/ ~StartsWith(ToLowerCase(filtered[1]), co)
          THEN The({ <<co, IF ~columnCount.nan /\ columnCount.val > 0
                          THEN Decimal(columnCount.val) ELSE Decimal(10), NL>>
                     \o filtered :
                     columnCount \in {countColumns(filtered)} })
          ELSE filtered :
          filtered \in {Trim(replaceTurn(t))} })

\* What is typed: technique names, `turn` in two spellings, `turn` inside a
\* word and next to a hyphen, a cast-on, a number, line ends.
FilterItems ==
    { knit, kfb, <<"k","2","t","o","g">>, turn, <<"T","u","r","n">>,
      <<"t","u","r","n","s">>, <<"t","u","r","n","-","k">>, co, <<"3">>, NL }

RECURSIVE Texts(_)
Texts(n) ==
    IF n = 0 THEN {<<>>}
    ELSE Texts(n - 1) \cup { Append(t, item) : t \in Texts(n - 1), item \in FilterItems }

InitFilter ==
    /\ typed \in Texts(MaxInput) \ {<<>>}
    /\ pattern = <<>> /\ text = <<>> /\ closed = TRUE
    /\ InitParser
    /\ heap = <<>> /\ nodes = <<>> /\ edges = <<>> /\ positionedNodes = <<>>
    /\ pyodide = "none" /\ pc = "input" /\ sim = NoSim /\ runs = 0 /\ tickLog = <<>>
    /\ seed = NoSeed /\ canvas = NoCanvas /\ earlier = NoSim
    /\ search = NoSearch /\ segments = NoSegments /\ budget = Budget

\* The click on processBtn, lines 1328-1337: an empty text is refused, any
\* other is filtered and handed to parsePattern.
ProcessClicked ==
    /\ pc = "input"
    /\ IF Trim(typed) = <<>>
       THEN pc' = "idle" /\ UNCHANGED <<pattern, text>>
       ELSE /\ \E filteredPattern \in {filterPattern(Trim(typed))} :
                 pattern' = filteredPattern /\ text' = filteredPattern
            /\ pc' = "parse"
    /\ UNCHANGED <<closed, i, compiler, result, history, aside, heap, nodes, edges,
                   positionedNodes, pyodide, sim, runs, seed, tickLog>>

Compiling == pc = "parse"

NextFilter ==
    \/ ProcessClicked
    \/ Compiling /\ Token
    \/ Compiling /\ EndOfLine
    \/ Compiling /\ Return

SpecFilter == InitFilter /\ [][NextFilter]_vars

----------------------------------------------------------------------------
(* Properties *)

EdgesOfType(es, type) == {n \in 1..Len(es) : es[n].type = type}
NumEdges(es, type) == Cardinality(EdgesOfType(es, type))
NumNL(t) == Cardinality({n \in 1..Len(t) : t[n] = NL})

\* The edges the last step appended.
NewEdges == SubSeq(allEdges, Len(prev.allEdges) + 1, Len(allEdges))
NewNodes == SubSeq(allNodes, Len(prev.allNodes) + 1, Len(allNodes))
\* The ids prev.count, prev.count + 1, ... of n nodes created by the last step.
NewIds(n) == [m \in 1..n |-> prev.count + m - 1]

LastTech == TechOf(last.stitch)
\* The stitches on the holding needle when the last technique token executed.
Held == IF LastTech.cursor_dir THEN prev.rightNeedle ELSE prev.leftNeedle

\* C1: for the text `co N` followed by R-1 lines of N `k` tokens (N, R >= 1),
\* the compile never fails and returns N*R nodes; when r lines are done there
\* are N*r nodes, N*(r-1) vertical edges and (N-1)*r horizontal edges, so
\* every line after the first adds N vertical and N-1 horizontal edges.
C1_KnitRows ==
    \A N \in 1..MaxN, R \in 1..MaxR :
        pattern = KnitText(N, R) =>
            /\ Returned =>
                /\ result.success
                /\ Len(result.nodes) = N * R
                /\ NumEdges(result.edges, "vertical") = N * (R - 1)
                /\ NumEdges(result.edges, "horizontal") = (N - 1) * R
            /\ last.op = "eol" =>
                 LET r == IF text = <<>> THEN R ELSE R - 1 - NumNL(text)
                 IN  /\ Len(allNodes) = N * r
                     /\ NumEdges(allEdges, "vertical") = N * (r - 1)
                     /\ NumEdges(allEdges, "horizontal") = (N - 1) * r

C1_Witness ==
    /\ pattern = KnitText(3, 3)
    /\ Returned /\ result.success /\ Len(result.nodes) = 9

\* C2: a technique token with kill > 0 processed while the holding needle
\* holds fewer than kill stitches (none, or some) makes the compile return a
\* failure whose message names the stitch.
C2_Underflow ==
    (last.op = "tech" /\ LastTech.kill > 0 /\ Len(Held) < LastTech.kill)
        => /\ Returned /\ ~result.success
           /\ result.error = UnderflowError(last.stitch)

C2_Witness ==
    /\ last.op = "tech" /\ last.stitch = <<"k","2","t","o","g">>
    /\ Len(Held) = 1
    /\ Returned /\ ~result.success

\* C3: a failed compile returns no node and no edge, whatever was built
\* before the failure.
C3_NoPartialGraph ==
    (Returned /\ ~result.success) => result.nodes = <<>> /\ result.edges = <<>>

C3_Witness ==
    /\ Returned /\ ~result.success
    /\ Len(prev.allNodes) > 0
    /\ Len(allNodes) > Len(prev.allNodes)
    /\ Len(allEdges) > Len(prev.allEdges)

\* A non-empty run of decimal digits.
IsInteger(s) == s # <<>> /\ \A n \in 1..Len(s) : IsDigit(s[n])

\* C4: a token that is neither a bare `co`, nor `co` followed by an integer,
\* nor a name of the technique table, nor of the cable shape makes the
\* compile fail with the error naming it.
C4_UnknownRejected ==
    (/\ last.op \in {"co", "tech", "cable", "unknown"}
     /\ last.stitch # co
     /\ ~(StartsWith(last.stitch, co) /\ IsInteger(Substring(last.stitch, 2)))
     /\ last.stitch \notin DOMAIN stitchTechniques
     /\ ~IsCable(last.stitch))
        => /\ Returned /\ ~result.success
           /\ result.error = UnknownError(last.stitch)

\* C5: the n-th node created has id n-1, at every point of the compile and in
\* every successful result.
C5_DenseIds ==
    /\ count = Len(allNodes)
    /\ \A n \in 1..Len(allNodes) : allNodes[n].id = n - 1
    /\ (Returned /\ result.success) =>
          \A n \in 1..Len(result.nodes) : result.nodes[n].id = n - 1

C5_Witness ==
    /\ Returned /\ result.success
    /\ Len(result.nodes) >= 3
    /\ \E n \in 1..Len(result.nodes) : result.nodes[n].type = co
    /\ \E n \in 1..Len(result.nodes) : result.nodes[n].type # co
    /\ \E n \in 2..Len(passStart) : passStart[n]

\* C6: every horizontal edge joins node id-1 to node id, and no pass boundary
\* (a `turn`, a rotation at the end of a line, the start of the compile) lies
\* between the creations of the two nodes.
HorizontalWithinPass(ns, es) ==
    \A n \in 1..Len(es) :
        es[n].type = "horizontal" =>
            /\ es[n].target = es[n].source + 1
            /\ es[n].source >= 0 /\ es[n].target < Len(ns)
            /\ ~passStart[es[n].target + 1]

C6_HorizontalSamePass ==
    /\ Len(passStart) = Len(allNodes)
    /\ HorizontalWithinPass(allNodes, allEdges)
    /\ (Returned /\ result.success) => HorizontalWithinPass(result.nodes, result.edges)

C6_Witness ==
    /\ Returned /\ result.success
    /\ NumEdges(result.edges, "horizontal") > 0
    /\ \E n \in 2..Len(passStart) : passStart[n] /\ allNodes[n].type = co
    /\ \E n \in 2..Len(passStart) : passStart[n] /\ allNodes[n].type = knit

\* C7: a technique token other than `turn`, with add = a and kill = k, that
\* finds at least k stitches on the holding needle removes exactly the last k
\* of them, appends a new nodes to the working needle and creates a*k vertical
\* edges: one from each popped stitch to each node added by this step.
C7_TechniqueStep ==
    (/\ last.op = "tech" /\ last.stitch \in DOMAIN stitchTechniques
     /\ ~LastTech.cursor_dir /\ Len(prev.leftNeedle) >= LastTech.kill)
        => LET a      == LastTech.add
               k      == LastTech.kill
               held   == Len(prev.leftNeedle)
               popped == {prev.leftNeedle[n] : n \in (held - k + 1)..held}
               added  == {prev.count + m - 1 : m \in 1..a}
               vert   == EdgesOfType(NewEdges, "vertical")
           IN  /\ ~Returned
               /\ leftNeedle = SubSeq(prev.leftNeedle, 1, held - k)
               /\ rightNeedle = prev.rightNeedle \o NewIds(a)
               /\ Len(NewNodes) = a
               /\ \A n \in 1..Len(NewNodes) :
                     NewNodes[n].id = prev.count + n - 1 /\ NewNodes[n].type = last.stitch
               /\ SubSeq(allEdges, 1, Len(prev.allEdges)) = prev.allEdges
               /\ Cardinality(vert) = a * k
               /\ {<<NewEdges[n].source, NewEdges[n].target>> : n \in vert}
                      = popped \X added

C7_Witness ==
    /\ last.op = "tech" /\ last.stitch = <<"k","f","b">>
    /\ Len(prev.leftNeedle) >= 2
    /\ NumEdges(NewEdges, "vertical") = 2

\* C8 as stated: `co 6` and two `turn` tokens, on one line or one per line,
\* compile to 6 nodes, 5 horizontal edges and no vertical edge, a `turn`
\* creates no node, and right after the second `turn` both needles hold what
\* they held right before the first.
TurnTexts == {TurnOneLine, TurnThreeLines}
Ids6 == [n \in 1..6 |-> n - 1]
NumTurns(t) == Cardinality({n \in 1..Len(t) : t[n] = turn})
BeforeFirstTurn == text # <<>> /\ Head(text) = turn /\ NumTurns(text) = 2
AfterSecondTurn == last.op = "tech" /\ last.stitch = turn /\ NumTurns(text) = 0
\* The needles right before the first `turn` of a turn text.
WorkingBefore(p) == IF p = TurnOneLine THEN Ids6 ELSE <<>>
HoldingBefore(p) == IF p = TurnOneLine THEN <<>> ELSE Ids6

TurnGraph ==
    /\ Returned =>
        /\ result.success
        /\ Len(result.nodes) = 6
        /\ NumEdges(result.edges, "horizontal") = 5
        /\ NumEdges(result.edges, "vertical") = 0
    /\ (last.op = "tech" /\ last.stitch = turn) =>
          allNodes = prev.allNodes /\ allEdges = prev.allEdges
    /\ BeforeFirstTurn =>
          rightNeedle = WorkingBefore(pattern) /\ leftNeedle = HoldingBefore(pattern)

C8_TurnTwice_Original ==
    pattern \in TurnTexts =>
        /\ TurnGraph
        /\ AfterSecondTurn =>
              rightNeedle = WorkingBefore(pattern) /\ leftNeedle = HoldingBefore(pattern)

\* C8 amended: as above, but the needles right after the second `turn` equal
\* those right before the first only when both turns are on one line.  With
\* one `turn` per line the rotation at the end of each line undoes the swap
\* of that line: right after the second `turn` the needles are exchanged
\* (the working needle holds the 6 stitches), and they hold what they held
\* before the first `turn` once the line of the second `turn` has ended.
C8_TurnTwice ==
    /\ pattern = TurnOneLine =>
        /\ TurnGraph
        /\ AfterSecondTurn => rightNeedle = Ids6 /\ leftNeedle = <<>>
    /\ pattern = TurnThreeLines =>
        /\ TurnGraph
        /\ AfterSecondTurn => rightNeedle = Ids6 /\ leftNeedle = <<>>
        /\ (last.op = "eol" /\ NumTurns(text) = 0) =>
              rightNeedle = <<>> /\ leftNeedle = Ids6

C8_Witness ==
    /\ pattern = TurnThreeLines
    /\ Returned /\ result.success
    /\ rightNeedle = <<>> /\ leftNeedle = Ids6

\* C9: the end of a non-blank line with a non-empty working needle makes the
\* holding needle a copy of the working needle (what was left on the holding
\* needle is dropped), empties the working needle and re-arms the flag; with
\* an empty working needle it changes neither needle nor the flag.
C9_EndOfLine ==
    last.op = "eol" =>
        IF prev.rightNeedle # <<>>
        THEN leftNeedle = prev.rightNeedle /\ rightNeedle = <<>> /\ edgeFlag
        ELSE /\ leftNeedle = prev.leftNeedle /\ rightNeedle = prev.rightNeedle
             /\ edgeFlag = prev.edgeFlag

C9_Witness ==
    /\ last.op = "eol"
    /\ prev.rightNeedle # <<>> /\ prev.leftNeedle # <<>> /\ ~prev.edgeFlag
    /\ leftNeedle = prev.rightNeedle

\* The count C10 gives a cast-on token: the following token of the line for
\* a bare `co` when it parses as an integer, the suffix of `coN`, otherwise 1.
ResolvedCount ==
    IF last.stitch = co
    THEN IF last.next # NoTok /\ ~ParseInt(last.next).nan
         THEN ParseInt(last.next).val ELSE 1
    ELSE IF ~ParseInt(Substring(last.stitch, 2)).nan
         THEN ParseInt(Substring(last.stitch, 2)).val ELSE 1

CountFromNext == last.stitch = co /\ last.next # NoTok /\ ~ParseInt(last.next).nan

\* The last step appended c `co` nodes to the working needle, left the
\* holding needle alone and created no vertical edge; the token loop went on
\* behind the token the count came from.
CastOnEffect(c) ==
    /\ ~Returned
    /\ Len(NewNodes) = c
    /\ \A n \in 1..Len(NewNodes) :
          NewNodes[n].type = co /\ NewNodes[n].id = prev.count + n - 1
    /\ rightNeedle = prev.rightNeedle \o NewIds(c)
    /\ leftNeedle = prev.leftNeedle
    /\ NumEdges(NewEdges, "vertical") = 0
    /\ SubSeq(allEdges, 1, Len(prev.allEdges)) = prev.allEdges
    /\ i = last.from + (IF CountFromNext THEN 2 ELSE 1)

\* C10 as stated: a cast-on token with resolved count c appends exactly c nodes.
C10_CastOn_Original == last.op = "co" => CastOnEffect(ResolvedCount)

\* C10 amended: a cast-on token with resolved count c appends exactly c nodes
\* when c >= 0 and none when c is negative; the rest as stated.
C10_CastOn ==
    last.op = "co" => CastOnEffect(IF ResolvedCount < 0 THEN 0 ELSE ResolvedCount)

C10_Witness ==
    /\ last.op = "co" /\ last.stitch = co /\ last.next = <<"2">>
    /\ Len(NewNodes) = 2
    /\ prev.leftNeedle # <<>>
    /\ leftNeedle = prev.leftNeedle


----------------------------------------------------------------------------
(* Properties of the seeders and of the engine *)


-----------------------------------------------------------------------------
(* A click on processBtn while a run started from simulationLayoutBtn is    *)
(* still going.  processBtn is enabled then: only the button of a handler   *)
(* is disabled while the handler runs (lines 1346, 1406).                   *)

MaxOverlapN == 2

OverlapTexts == { KnitText(N, 1) : N \in 1..MaxOverlapN }

\* The timer of a solver fires between tasks: while a click handler waits for
\* the network or for a run, or when none is running.
Yielded == pc \in {"loadPyodide", "loadPackage", "simulating", "idle"}

InitOverlap ==
    /\ pattern \in OverlapTexts /\ text = pattern /\ closed = TRUE
    /\ InitCompiler

\* The click on processBtn, lines 1328-1349: the compile of a new text
\* starts.  Nothing stops the solver of the run in progress.
ClickProcess ==
    /\ pc = "simulating" /\ runs >= 2 /\ sim.alpha > 0 /\ earlier = NoSim
    /\ earlier' = sim
    /\ sim' = NoSim /\ tickLog' = <<>>
    /\ pattern' \in OverlapTexts /\ text' = pattern' /\ closed' = TRUE
    /\ i' = 0
    /\ allNodes' = <<>> /\ allEdges' = <<>>
    /\ rightNeedle' = <<>> /\ leftNeedle' = <<>>
    /\ count' = 0 /\ edgeFlag' = TRUE
    /\ result' = NoResult
    /\ prev' = InitState /\ last' = NoStep
    /\ passStart' = <<>> /\ boundary' = TRUE
    /\ pc' = "parse"
    /\ UNCHANGED <<heap, nodes, edges, positionedNodes, pyodide, runs, seed,
                   search, canvas, segments, budget, typed>>

\* A step of the solver of the earlier run and its tick handler.
EarlierTick ==
    /\ Yielded /\ earlier.alpha > 0
    /\ \E v \in VelocityFields(Len(earlier.nodes)) :
         \E h1 \in {solverStep(heap, earlier.nodes, v)} :
         \E out \in tickNodes(h1, earlier.nodes, earlier.edges, 1, <<>>) :
            /\ heap' = out.heap
            /\ earlier' = [earlier EXCEPT
                          !.counter = @ + 1,
                          !.alpha = IF energyCheckDue(earlier.counter) /\ lowEnergy(out.heap, earlier.nodes)
                                    THEN 0 ELSE @ - 1]
    /\ UNCHANGED <<parser, nodes, edges, positionedNodes, pyodide, pc, sim, runs, seed,
                   tickLog, search, canvas, segments, budget, typed>>

\* The end handler of the earlier run.
EarlierEnd ==
    /\ Yielded /\ earlier # NoSim /\ earlier.alpha = 0 /\ earlier.ended = 0
    /\ \E mid \in {calibrate(startSearch(lengths(heap, earlier.edges),
                                         weights(heap, earlier.edges)))} :
          earlier' = [endRun(earlier) EXCEPT !.mid = mid]
    /\ canvas' = setupDrawingCanvas(earlier.nodes)
    /\ UNCHANGED <<parser, heap, nodes, edges, positionedNodes, pyodide, pc, sim, runs,
                   seed, tickLog, search, segments, budget, typed>>

\* The runs of this specification are seeded by the grid layout.
NextOverlap ==
    \/ Next
    \/ Parsed \/ SeedGrid \/ Simulate \/ Tick \/ EndHandler \/ ClickSimulation
    \/ ClickProcess \/ EarlierTick \/ EarlierEnd

SpecOverlap == InitOverlap /\ [][NextOverlap]_vars

-----------------------------------------------------------------------------
(* The calibration search on its own, over chains of three nodes            *)

MaxStretch == 6

\* The lengths of the two edges of the chain after the run, and their weights;
\* a graph without edges; a chain whose nodes stand on one point.
Chains ==
    { startSearch(<<10 * a, 10 * b>>, <<v, w>>) :
        a \in 1..MaxStretch, b \in 1..MaxStretch,
        v \in {weightH, weightV}, w \in {weightH, weightV} }
    \cup { startSearch(<<>>, <<>>), startSearch(<<0, 0>>, <<weightH, weightV>>) }

InitCalibration ==
    /\ pattern = <<>> /\ text = <<>> /\ closed = TRUE
    /\ InitParser
    /\ InitGraph
    /\ search \in Chains /\ segments = NoSegments
    /\ budget = Budget /\ typed = <<>>

Search ==
    /\ searching(search)
    /\ search' = searchStep(search)
    /\ UNCHANGED <<parser, heap, nodes, edges, positionedNodes, pyodide, pc, sim, runs,
                   seed, tickLog, canvas, earlier, segments, budget, typed>>

SpecCalibration == InitCalibration /\ [][Search]_vars


-----------------------------------------------------------------------------
(* doSegmentsIntersect on its own, over the points of a grid                *)

MaxCoord == 3

Grid == [x : 0..MaxCoord, y : 0..MaxCoord]

InitSegments ==
    /\ pattern = <<>> /\ text = <<>> /\ closed = TRUE
    /\ InitParser
    /\ InitGraph
    /\ search = NoSearch
    /\ segments \in [asked : {FALSE}, p1 : Grid, p2 : Grid, q1 : Grid, q2 : Grid]
    /\ budget = Budget /\ typed = <<>>

\* The predicate is asked about the two segments, in both orders.
Intersect ==
    /\ ~segments.asked
    /\ segments' = [asked |-> TRUE,
                    p1 |-> segments.p1, p2 |-> segments.p2,
                    q1 |-> segments.q1, q2 |-> segments.q2,
                    answer |-> doSegmentsIntersect(segments.p1, segments.p2,
                                                   segments.q1, segments.q2),
                    mirrored |-> doSegmentsIntersect(segments.q1, segments.q2,
                                                     segments.p1, segments.p2)]
    /\ UNCHANGED <<parser, heap, nodes, edges, positionedNodes, pyodide, pc, sim, runs,
                   seed, tickLog, search, canvas, earlier, budget, typed>>

SpecSegments == InitSegments /\ [][Intersect]_vars


Loaded == pc # "parse" /\ result.success

\* C11: once the compiled graph is the page's graph, whatever seeding and
\* simulation have run, each of its node objects is the node the compiler
\* returned, without x, y, vx, vy, x_old or y_old, and each of its edge objects
\* is the edge the compiler returned, with its integer source, target and weight.
C11_GraphNotMutated ==
    Loaded =>
        /\ Len(nodes) = Len(result.nodes) /\ Len(edges) = Len(result.edges)
        /\ \A k \in 1..Len(nodes) :
              /\ heap[nodes[k]] = result.nodes[k]
              /\ \A f \in {"x", "y", "vx", "vy", "x_old", "y_old"} : ~Has(heap[nodes[k]], f)
        /\ \A k \in 1..Len(edges) :
              /\ heap[edges[k]] = result.edges[k]
              /\ ~Linked(heap[edges[k]])
              /\ heap[edges[k]].source \in 0..(Len(nodes) - 1)
              /\ heap[edges[k]].target \in 0..(Len(nodes) - 1)

\* A second run over the graph has ended, with nodes of the engine moved away
\* from where the seeder put them.
C11_Witness ==
    /\ runs = 2 /\ pc = "idle" /\ sim.ended = 1 /\ Len(edges) >= 1
    /\ \E k \in 1..Len(sim.nodes) : tickLog # <<>> /\ tickLog[k].after # tickLog[k].before

SingleRow(N) == <<co, NumTok(N)>>

\* C12: the grid seed of `co N` has N nodes in the order of their ids, all
\* with one y, each gridSpacing to the right of the one before.
C12_GridSingleRow ==
    \A N \in 1..MaxN :
        (pattern = SingleRow(N) /\ seed.by = "grid") =>
            /\ Len(positionedNodes) = N
            /\ gridSpacing > 0
            /\ \A k \in 1..N : heap[positionedNodes[k]].id = k - 1
            /\ \A k \in 1..(N - 1) :
                  /\ heap[positionedNodes[k + 1]].y = heap[positionedNodes[k]].y
                  /\ heap[positionedNodes[k + 1]].x = heap[positionedNodes[k]].x + gridSpacing

C12_Witness ==
    /\ pattern = SingleRow(MaxN) /\ seed.by = "grid" /\ pc = "seeded"
    /\ Len(positionedNodes) = MaxN

Sq(v) == v * v

C14_SeedingReturns == (pc \in Awaiting) ~> (pc \notin Awaiting)

\* The engine has preprocessed its copies and the solver has not stepped yet.
Preprocessed == pc = "simulating" /\ sim.counter = 0

\* The extent of the seed on one axis has no width.
Degenerate(field) ==
    LET ext == extent(heap, positionedNodes, field)
    IN  ext.none \/ ext.hi = ext.lo

\* C15: after the preprocessing every node of the engine has x and y in
\* 0..1000, for every seed of one node or more, degenerate or not.
C15_CanonicalDomain ==
    (Preprocessed /\ Len(sim.nodes) >= 1) =>
        \A a \in Range(sim.nodes) :
            /\ heap[a].x \in 0..1000
            /\ heap[a].y \in 0..1000

\* A seed with width and height: nodes at both ends of the domain and one
\* strictly inside it.
C15_Witness ==
    /\ Preprocessed /\ ~Degenerate("x") /\ ~Degenerate("y")
    /\ \E a, b, c \in Range(sim.nodes) :
          /\ heap[a].x = 0 /\ heap[b].x = 1000
          /\ heap[c].x > 0 /\ heap[c].x < 1000
          /\ heap[positionedNodes[1]].x # heap[sim.nodes[1]].x

seedPosition(k) == position(heap, positionedNodes[k])

\* C16: when the seed has no extent on exactly one axis, the preprocessing
\* keeps the affine remap on the other axis, so that nodes seeded at distinct
\* positions start the solver at distinct positions.
C16_DegenerateAxis ==
    \A f \in {"x", "y"} :
        LET g == IF f = "x" THEN "y" ELSE "x"
        IN  (Preprocessed /\ Degenerate(f) /\ ~Degenerate(g)) =>
                /\ \A k \in 1..Len(sim.nodes) :
                      heap[sim.nodes[k]][g] =
                          remap(heap[positionedNodes[k]], g, extent(heap, positionedNodes, g)).val
                /\ \A k, m \in 1..Len(sim.nodes) :
                      seedPosition(k) # seedPosition(m) =>
                          position(heap, sim.nodes[k]) # position(heap, sim.nodes[m])

\* C17: a coordinate whose remap is not a number is replaced by the centre of
\* the domain 0..1000 x 0..1000: 500 on the x axis, 500 on the y axis.
C17_NaNToCentre ==
    Preprocessed =>
        \A k \in 1..Len(sim.nodes) :
            /\ remap(heap[positionedNodes[k]], "x", extent(heap, positionedNodes, "x")).nan =>
                  heap[sim.nodes[k]].x = 500
            /\ remap(heap[positionedNodes[k]], "y", extent(heap, positionedNodes, "y")).nan =>
                  heap[sim.nodes[k]].y = 500

\* The last-known position of engine node b while the tick handler is at the
\* k-th node: the nodes before it have been handled, the others not yet.
lastKnownAt(k, b) ==
    LET m == CHOOSE j \in 1..Len(sim.nodes) : sim.nodes[j] = b
    IN  IF m < k THEN tickLog[m].last ELSE tickLog[m].before

Ends(e) == {heap[e].source, heap[e].target}

\* C18: a node whose position a step has changed stands on a candidate that
\* was tested and found safe: for every neighbour n2, the segment from the
\* candidate to the last-known position of n2 meets no edge, taken at
\* last-known positions, that has no end in common with n or n2.
C18_OnlySafeMoves ==
    \A k \in 1..Len(tickLog) :
        tickLog[k].after # tickLog[k].before =>
            /\ tickLog[k].safe
            /\ tickLog[k].last = tickLog[k].after
            /\ \A e1, e2 \in Range(sim.edges) :
                  (sim.nodes[k] \in Ends(e1) /\ Ends(e2) \cap Ends(e1) = {}) =>
                      \A n2 \in Ends(e1) \ {sim.nodes[k]} :
                          ~doSegmentsIntersect(tickLog[k].after, lastKnownAt(k, n2),
                                               lastKnownAt(k, heap[e2].source),
                                               lastKnownAt(k, heap[e2].target))

\* The first candidate of a node crossed an edge and was refused; the second
\* one was safe and the node stands on it.
C18_Witness ==
    \E k \in 1..Len(tickLog) :
        /\ tickLog[k].tests = 2 /\ tickLog[k].safe
        /\ tickLog[k].after # tickLog[k].before
        /\ \E e1, e2 \in Range(sim.edges) :
              sim.nodes[k] \in Ends(e1) /\ Ends(e2) \cap Ends(e1) = {}

\* C19: the local search of a node tests one candidate or two and then ends;
\* when every candidate tested was unsafe, the node's position and last-known
\* position after the step are its position before the step.
C19_BoundedSearch ==
    /\ pc = "simulating" /\ sim.counter > 0 => Len(tickLog) = Len(sim.nodes)
    /\ \A k \in 1..Len(tickLog) :
          /\ tickLog[k].tests \in 1..2
          /\ ~tickLog[k].safe =>
                /\ tickLog[k].tests = 2
                /\ tickLog[k].after = tickLog[k].before
                /\ tickLog[k].last = tickLog[k].before
                /\ position(heap, sim.nodes[k]) = tickLog[k].before
                /\ lastKnown(heap, sim.nodes[k]) = tickLog[k].before

\* The solver pushed a node, and both its velocity candidate and its jittered
\* candidate crossed an edge.
C19_Witness ==
    \E k \in 1..Len(tickLog) :
        /\ tickLog[k].tests = 2 /\ ~tickLog[k].safe
        /\ heap[sim.nodes[k]].vx # 0
        /\ position(heap, sim.nodes[k]) = tickLog[k].before

C21_EmptyGraphSkipsSolver ==
    (pc \in {"simulating", "idle"} /\ Len(sim.nodes) = 0) => sim.counter = 0

\* C22: the engine run twice on the same seeded nodes and edges, with the
\* solver giving the same velocities, ends with the same position of every
\* node: whatever the last step of a run made of a state, every other
\* execution of that step from that state makes of it too.
C22_DeterministicRuns ==
    [][(Tick /\ sim'.alpha = 0) =>
          LET v == [k \in 1..Len(sim.nodes) |->
                       <<heap'[sim.nodes[k]].vx, heap'[sim.nodes[k]].vy>>]
          IN  \A out \in tickNodes(solverStep(heap, sim.nodes, v), sim.nodes, sim.edges, 1, <<>>) :
                  \A a \in Range(sim.nodes) : position(out.heap, a) = position(heap', a)]_vars

\* C23: on a chain of three nodes and two edges of positive length and
\* weight, the scale the search stops at, its last midpoint, is a minimum of
\* the objective to the step 0.0001: the objective there is no greater than
\* 0.0001 above it and no greater than 0.0001 below it.
C23_CalibratedScale ==
    (search # NoSearch /\ ~searching(search)) =>
        /\ compareObjective(search.mid, search.mid + probe, search.dist, search.weight) <= 0
        /\ compareObjective(search.mid, search.mid - probe, search.dist, search.weight) <= 0

\* A coordinate times a scale, rounded down.
scaleBy(v, mid) == (v * (mid \div 10000) + (v * (mid % 10000)) \div 10000) \div 4096

\* C24: the coordinates the end handler hands to the drawing are the final
\* positions of the solver multiplied by the calibrated scale.
C24_CalibratedCoordinates ==
    (pc = "idle" /\ sim.ended = 1) =>
        \A k \in 1..Len(canvas.finalNodes) :
            position(heap, canvas.finalNodes[k]) =
                [x |-> scaleBy(tickLog[k].after.x, sim.mid),
                 y |-> scaleBy(tickLog[k].after.y, sim.mid)]

\* C25: doSegmentsIntersect gives the same answer with its two segments
\* exchanged, for all grid points, segments of no length included.
C25_Symmetric ==
    segments.asked => segments.answer = segments.mirrored

\* A segment of no length lying on the other segment.
C25_Witness ==
    /\ segments.asked /\ segments.answer
    /\ segments.p1 = segments.p2
    /\ segments.q1 # segments.q2
    /\ segments.p1 # segments.q1 /\ segments.p1 # segments.q2

\* The cross product of b - a and c - a.
Cross(a, b, c) == (b.x - a.x) * (c.y - a.y) - (b.y - a.y) * (c.x - a.x)

\* The scalar product of b - a and c - a.
Dot(a, b, c) == (b.x - a.x) * (c.x - a.x) + (b.y - a.y) * (c.y - a.y)

\* Point c lies on the closed segment from a to b.
Within(a, b, c) ==
    IF a = b THEN c = a
    ELSE Cross(a, b, c) = 0 /\ 0 <= Dot(a, b, c) /\ Dot(a, b, c) <= Dot(a, b, b)

\* The closed segments p1 p2 and q1 q2 have a point in common, by solving
\* p1 + t (p2 - p1) = q1 + u (q2 - q1) for t and u in [0, 1]: t = tn / det
\* and u = un / det when the directions are not parallel; otherwise the
\* segments lie on one line and an end of one is on the other.
CommonPoint(p1, p2, q1, q2) ==
    LET det == (p2.x - p1.x) * (q2.y - q1.y) - (p2.y - p1.y) * (q2.x - q1.x)
        tn  == (q1.x - p1.x) * (q2.y - q1.y) - (q1.y - p1.y) * (q2.x - q1.x)
        un  == (q1.x - p1.x) * (p2.y - p1.y) - (q1.y - p1.y) * (p2.x - p1.x)
    IN  IF det > 0 THEN 0 <= tn /\ tn <= det /\ 0 <= un /\ un <= det
        ELSE IF det < 0 THEN det <= tn /\ tn <= 0 /\ det <= un /\ un <= 0
        ELSE \/ Within(p1, p2, q1) \/ Within(p1, p2, q2)
             \/ Within(q1, q2, p1) \/ Within(q1, q2, p2)

Collinear(sg) ==
    /\ sg.p1 # sg.p2 /\ sg.q1 # sg.q2
    /\ Cross(sg.p1, sg.p2, sg.q1) = 0 /\ Cross(sg.p1, sg.p2, sg.q2) = 0

\* C26: doSegmentsIntersect is true exactly when the closed segments have a
\* point in common: true for a proper crossing, for a touch at an end and for
\* collinear segments sharing a part; false for collinear segments apart and
\* for segments that do not meet though their bounding boxes do.
C26_ExactIntersection ==
    segments.asked =>
        /\ segments.answer = CommonPoint(segments.p1, segments.p2, segments.q1, segments.q2)
        /\ (Collinear(segments) /\ ~Within(segments.p1, segments.p2, segments.q1)
              /\ ~Within(segments.p1, segments.p2, segments.q2)
              /\ ~Within(segments.q1, segments.q2, segments.p1)) => ~segments.answer
        /\ (segments.p1 # segments.p2 /\ Within(segments.p1, segments.p2, segments.q1))
              => segments.answer

\* Two collinear segments of which one is a part of the other, none of its
\* ends an end of the other, and the answer is true.
C26_Witness ==
    /\ segments.asked /\ segments.answer /\ Collinear(segments)
    /\ Within(segments.p1, segments.p2, segments.q1)
    /\ Within(segments.p1, segments.p2, segments.q2)
    /\ {segments.q1, segments.q2} \cap {segments.p1, segments.p2} = {}

\* C27: what a run's end handler has drawn uses the edges of the graph that
\* run was started on, also when a later click has compiled another graph
\* before the end handler fired.
C27_RunConfined ==
    \A run \in {sim, earlier} :
        (run.ended = 1 /\ Len(run.nodes) > 0 /\ canvas.finalNodes = run.nodes) =>
            canvas.edges = run.graph


\* C28: a `turn` token exchanges the working and the holding needle and
\* re-arms the edge-suppression flag; the node list, the edge list and the id
\* counter are as they were before the token.
C28_TurnExchanges ==
    (last.op = "tech" /\ last.stitch = turn)
        => /\ rightNeedle = prev.leftNeedle
           /\ leftNeedle = prev.rightNeedle
           /\ edgeFlag = TRUE
           /\ allNodes = prev.allNodes
           /\ allEdges = prev.allEdges
           /\ count = prev.count

C28_Witness ==
    /\ last.op = "tech" /\ last.stitch = turn
    /\ prev.leftNeedle # <<>> /\ prev.rightNeedle # <<>>
    /\ ~prev.edgeFlag
    /\ rightNeedle # prev.rightNeedle


\* C29: a token whose first and last character are `c` and that is not a name
\* of the technique table leaves the node list, the edge list, both needles,
\* the id counter and the flag as they were, and the compile goes on.
C29_CableIgnored ==
    (/\ last.op \in {"co", "tech", "cable", "unknown"}
     /\ IsCable(last.stitch)
     /\ last.stitch \notin DOMAIN stitchTechniques)
        => /\ State = prev
           /\ ~Returned


\* The sources of the vertical edges into node id.
VerticalSources(es, id) ==
    { <<n, es[n].source>> : n \in { m \in 1..Len(es) :
                                      es[m].type = "vertical" /\ es[m].target = id } }

\* C30: the holding needle is consumed last in, first out: in the text `co N`
\* followed by lines of N `k` tokens, the j-th node (from 0) of a line worked
\* over the stitches b..b+N-1 of the line before has one vertical edge, and
\* it comes from node b+N-1-j.
C30_LastInFirstOut ==
    \A N \in 1..MaxN, R \in 1..MaxR :
        pattern = KnitText(N, R) =>
            \A r \in 2..R, j \in 0..(N - 1) :
                LET b  == (r - 2) * N
                    id == b + N + j
                IN  count > id =>
                      /\ allNodes[id + 1].type = knit
                      /\ Cardinality(VerticalSources(allEdges, id)) = 1
                      /\ \A v \in VerticalSources(allEdges, id) : v[2] = b + N - 1 - j
                      /\ (Returned /\ result.success) =>
                            \A v \in VerticalSources(result.edges, id) : v[2] = b + N - 1 - j

C30_Witness ==
    /\ pattern = KnitText(3, 3)
    /\ Returned /\ result.success
    /\ {v[2] : v \in VerticalSources(result.edges, 6)} = {5}
    /\ 3 \in {v[2] : v \in VerticalSources(result.edges, 8)}
    /\ 2 \in {v[2] : v \in VerticalSources(result.edges, 3)}


GridSeeded == pc = "seeded" /\ seed.by = "grid"

\* The k-th node handed back by the seeder.
Seeded(k) == heap[positionedNodes[k]]

\* The page's graph has a horizontal edge between the nodes with ids a and b.
HorizontalBetween(a, b) ==
    \E e \in Range(edges) :
        /\ heap[e].type = "horizontal"
        /\ {heap[e].source, heap[e].target} = {a, b}

\* The nodes, by position in id order, that have no horizontal edge to the
\* node before them; the first node is one of them.
RowStarts ==
    {k \in 1..Len(nodes) : k = 1 \/ ~HorizontalBetween(heap[nodes[k - 1]].id, heap[nodes[k]].id)}

\* The row group of the k-th node, from 0.
GroupOf(k) == Cardinality({m \in RowStarts : m <= k}) - 1

\* C31: the grid seeder hands back one object with x and y per node of the
\* graph; two nodes are in one row (one y) exactly when no node from the first
\* to the second, in id order, lacks a horizontal edge to the node before it;
\* no two nodes stand at one point.
C31_RowGroups ==
    GridSeeded =>
        /\ gridSpacing > 0
        /\ Len(positionedNodes) = Len(nodes)
        /\ \A k \in 1..Len(nodes) :
              /\ Seeded(k).id = heap[nodes[k]].id
              /\ Has(Seeded(k), "x") /\ Has(Seeded(k), "y")
              /\ k > 1 => heap[nodes[k - 1]].id < heap[nodes[k]].id
        /\ \A k, m \in 1..Len(nodes) :
              /\ (Seeded(k).y = Seeded(m).y) <=> (GroupOf(k) = GroupOf(m))
              /\ k # m => <<Seeded(k).x, Seeded(k).y>> # <<Seeded(m).x, Seeded(m).y>>

\* Three rows of widths 3, 4 and 2 have been seeded.
C31_Witness ==
    /\ GridSeeded
    /\ Len(positionedNodes) = 9
    /\ RowStarts = {1, 4, 8}


\* The positions, in id order, of the nodes of row group r (from 0).
GroupMembers(r) == {k \in 1..Len(nodes) : GroupOf(k) = r}

MinOfSet(S) == CHOOSE v \in S : \A w \in S : v <= w

\* Where the row of width n starts when centred on center.x.
CentredStart(n) == center.x - ((n - 1) * gridSpacing) \div 2

\* C32: in the grid seed all nodes of a row group share one y; the y of the
\* next group is less by 0.8 * gridSpacing (the canvas's y grows downwards);
\* in the groups 0, 2, ... x grows with the id from the centred start of the
\* row, in the groups 1, 3, ... x falls with the id and is shifted by half of
\* gridSpacing; neighbours in a group are gridSpacing apart.
C32_RowGeometry ==
    GridSeeded =>
        \A k \in 1..Len(nodes) :
            LET r     == GroupOf(k)
                first == MinOfSet(GroupMembers(r))
                n     == Cardinality(GroupMembers(r))
                col   == k - first
            IN  /\ Seeded(k).y = Seeded(first).y
                /\ (k = first /\ k > 1) =>
                      Seeded(k).y = Seeded(k - 1).y - (gridSpacing * 8) \div 10
                /\ k > first =>
                      Seeded(k).x = Seeded(k - 1).x
                                      + (IF r % 2 = 0 THEN gridSpacing ELSE 0 - gridSpacing)
                /\ Seeded(k).x =
                      IF r % 2 = 0
                      THEN CentredStart(n) + col * gridSpacing
                      ELSE CentredStart(n) + gridSpacing \div 2 + (n - 1 - col) * gridSpacing

\* Three rows of two stitches or more have been seeded, so that a reversed
\* row lies between two rows that are not.
C32_Witness ==
    /\ GridSeeded
    /\ \A r \in 0..2 : Cardinality(GroupMembers(r)) >= 2
    /\ Seeded(MinOfSet(GroupMembers(1))).x > Seeded(MinOfSet(GroupMembers(1)) + 1).x
    /\ Seeded(MinOfSet(GroupMembers(2))).x < Seeded(MinOfSet(GroupMembers(2)) + 1).x
    /\ Cardinality(GroupMembers(0)) # Cardinality(GroupMembers(1))


\* The node of entry k of the tick's log was left where it was: the last
\* candidate tested for it was unsafe.
GaveUp(k) == ~tickLog[k].safe

\* C33: a node is given up in a step only after its velocity candidate and
\* two jittered candidates have each been tested and found unsafe, that is
\* after three tests; a jittered candidate is within 15 of the last-known
\* position on each axis.
C33_TwoJitteredRetries ==
    /\ \A j \in Jitters : -15 <= j /\ j <= 15
    /\ \A k \in 1..Len(tickLog) :
          GaveUp(k) => /\ tickLog[k].tests = 3
                       /\ tickLog[k].after = tickLog[k].before


\* The index, from 0, of the last step of the run.
LastIndex == sim.counter - 1

\* The velocities the last step left: whole numbers, so that their mean
\* square is below 0.01 exactly when all of them are 0.
AtRest ==
    /\ Len(sim.nodes) > 0
    /\ \A a \in Range(sim.nodes) : heap[a].vx = 0 /\ heap[a].vy = 0

\* C34: the solver's alpha is forced to 0 by a step exactly when the index of
\* the step is a multiple of 10 and the mean squared velocity is below 0.01;
\* on every other step alpha goes on falling to the end of the budget.  A run
\* whose alpha was forced ends with that step: it has run no further step
\* when the end handler has run.
C34_EnergyCheck ==
    LET forced == LastIndex % 10 = 0 /\ AtRest
    IN  /\ (pc = "simulating" /\ sim.counter > 0) =>
              /\ forced => sim.alpha = 0
              /\ ~forced => sim.alpha = budget - sim.counter
        /\ (pc = "idle" /\ sim.ended > 0) =>
              /\ sim.ended = 1
              /\ forced \/ sim.counter = budget

\* A run in motion at its first step has been stopped by the check of step 10,
\* short of its budget.
C34_Witness ==
    /\ pc = "idle" /\ sim.ended = 1
    /\ sim.counter = 11 /\ budget > 11
    /\ AtRest
    /\ \E a \in Range(sim.nodes) : heap[a].x # fallbackX


RECURSIVE Pow2(_)
Pow2(k) == IF k = 0 THEN 1 ELSE 2 * Pow2(k - 1)

\* The interval of the search is the first interval halved k times.
Halved(k) == (search.ub - search.lb) * Pow2(k) = ub0 - lb0

\* The search is over a graph without edges or with edges of length 0 only.
NoLength == \A k \in 1..Len(search.dist) : search.dist[k] = 0

\* C35: throughout the calibration 0.01 <= lb <= ub <= 5.01 and the interval
\* is the first one halved once per iteration; the loop ends after exactly 16
\* iterations, with ub - lb <= 0.0001, for every edge set; without edges, or
\* with edges of length 0 only, the search runs to the upper bound 5.01.
C35_SearchTerminates ==
    search # NoSearch =>
        /\ lb0 <= search.lb /\ search.lb <= search.ub /\ search.ub <= ub0
        /\ \E k \in 0..16 : Halved(k)
        /\ searching(search) => \E k \in 0..15 : Halved(k)
        /\ ~searching(search) => Halved(16) /\ search.ub - search.lb <= tolerance
        /\ NoLength => search.ub = ub0

\* The search over the chain on one point has ended below 5.01 by less than
\* the tolerance.
C35_Witness ==
    /\ search # NoSearch /\ ~searching(search)
    /\ search.dist = <<0, 0>>
    /\ search.ub = ub0 /\ search.lb > lb0
    /\ search.mid = search.lb


\* The pairs of edges of the run that have no end in common and whose
\* segments meet, at the last-known positions the tick handler sees when it
\* comes to the k-th node (k = Len(sim.nodes) + 1: when the step is over).
CrossingsAt(k) ==
    { p \in Range(sim.edges) \X Range(sim.edges) :
        /\ p[1] < p[2]
        /\ Ends(p[1]) \cap Ends(p[2]) = {}
        /\ doSegmentsIntersect(lastKnownAt(k, heap[p[1]].source),
                               lastKnownAt(k, heap[p[1]].target),
                               lastKnownAt(k, heap[p[2]].source),
                               lastKnownAt(k, heap[p[2]].target)) }

\* C36: the number of pairs of edges without a common end whose segments
\* meet, at last-known positions, does not grow when the tick handler updates
\* a node, and so not across a step; a step that begins without such a pair
\* ends without one.
C36_CrossingsNeverGrow ==
    (pc = "simulating" /\ tickLog # <<>>) =>
        LET n == Len(sim.nodes)
        IN  /\ \A k \in 1..n :
                  Cardinality(CrossingsAt(k + 1)) <= Cardinality(CrossingsAt(k))
            /\ Cardinality(CrossingsAt(n + 1)) <= Cardinality(CrossingsAt(1))
            /\ CrossingsAt(1) = {} => CrossingsAt(n + 1) = {}
            /\ \A a \in Range(sim.nodes) : lastKnownAt(n + 1, a) = lastKnown(heap, a)

\* A step on a graph free of crossings in which a candidate that crosses an
\* edge was refused and the node moved to the next candidate.
C36_Witness ==
    /\ pc = "simulating" /\ tickLog # <<>>
    /\ CrossingsAt(1) = {}
    /\ \E k \in 1..Len(tickLog) :
          /\ tickLog[k].tests = 2 /\ tickLog[k].safe
          /\ tickLog[k].after # tickLog[k].before
          /\ \E e1, e2 \in Range(sim.edges) :
                sim.nodes[k] \in Ends(e1) /\ Ends(e2) \cap Ends(e1) = {}


\* The ids on the two needles of compiler state c.
OnNeedles(c) ==
    {c.rightNeedle[n] : n \in 1..Len(c.rightNeedle)} \cup
    {c.leftNeedle[n] : n \in 1..Len(c.leftNeedle)}

\* The nodes that vertical edges of es leave.
VerticalFrom(es) == {es[n].source : n \in EdgesOfType(es, "vertical")}

\* C37: at every point of a compile the needles hold ids of nodes created so
\* far, each id once at most over both needles; an id that has left the
\* needles never comes back, so that a node is popped once at most; the
\* vertical edges a step creates leave nodes this step has popped from the
\* holding needle, and no vertical edge created before leaves one of them.
C37_NeedlesDisjoint ==
    /\ OnNeedles(State) \subseteq 0..(count - 1)
    /\ Cardinality(OnNeedles(State)) = Len(rightNeedle) + Len(leftNeedle)
    /\ OnNeedles(State) \subseteq OnNeedles(prev) \cup (prev.count)..(count - 1)
    /\ VerticalFrom(NewEdges) \subseteq
            {prev.leftNeedle[n] : n \in 1..Len(prev.leftNeedle)} \ OnNeedles(State)
    /\ VerticalFrom(NewEdges) \cap VerticalFrom(prev.allEdges) = {}
    /\ VerticalFrom(allEdges) \cap OnNeedles(State) = {}

\* A step has popped two stitches and made a horizontal edge besides the two
\* vertical ones, with stitches on a needle after it.
C37_Witness ==
    /\ last.op = "tech" /\ Cardinality(VerticalFrom(NewEdges)) = 2
    /\ Len(NewEdges) > Cardinality(VerticalFrom(NewEdges))
    /\ OnNeedles(State) # {}


\* The click has handed the filtered text to parsePattern.
Filtered == pc = "parse"

\* The tokens of a text.
TokensOf(t) == {t[n] : n \in {m \in 1..Len(t) : t[m] # NL}}

\* What C38 says of the filter's output besides the second application: no
\* token of it is `turn` in any spelling, nor holds `turn` as a word; its
\* first token starts with `co`; parsePattern does not come upon a `turn`.
FilterOutput ==
    /\ \A tok \in TokensOf(pattern) :
          ToLowerCase(tok) # turn /\ stripTurn(tok, 1) = tok
    /\ pattern # <<>> /\ StartsWith(ToLowerCase(pattern[1]), co)
    /\ last.stitch # turn

\* C38 as stated: besides, the filter applied to its output returns the
\* output unchanged.
C38_FilterIdempotent_Original ==
    Filtered => FilterOutput /\ filterPattern(pattern) = pattern

\* C38 amended: the filter applied to its output returns the output without
\* the line ends at its end; unchanged when the typed text is more than
\* `turn` tokens.
C38_FilterIdempotent ==
    Filtered =>
        /\ FilterOutput
        /\ filterPattern(pattern) = Trim(pattern)
        /\ Trim(replaceTurn(typed)) # <<>> => filterPattern(pattern) = pattern

\* `k Turn k` was typed; `co 2` and the two stitches have been compiled.
C38_Witness ==
    /\ Filtered
    /\ typed = <<knit, <<"T","u","r","n">>, knit>>
    /\ pattern = <<co, <<"2">>, NL, knit, knit>>
    /\ Returned /\ result.success /\ Len(result.nodes) = 4


\* The typed text has no cast-on and is made of names of the technique table.
OnlyTechniques ==
    \A tok \in TokensOf(typed) :
        ToLowerCase(tok) \in DOMAIN stitchTechniques /\ ~IsCastOn(ToLowerCase(tok))

\* The line, from 0, that parsePattern is at or has failed in.
LineNo == NumNL(pattern) - NumNL(text)

\* C39: for a typed text without a cast-on and made of technique names only,
\* the compile of the filtered text, which starts with the cast-on the filter
\* has put in front, does not fail with an empty holding needle in the first
\* line of the pattern.
C39_AutoCastOnSuffices ==
    (Filtered /\ OnlyTechniques /\ Returned /\ LineNo = 1) =>
        (result.success \/ result.error # UnderflowError(last.stitch))

====
